---- MODULE Spec2Model ----
(***************************************************************************)
(* A model of convert_webarchives_windows_longpath.py: the name sanitizer, *)
(* the document resolver cascade (convert_to_html), the resource           *)
(* materializer and rewriter (_extract_subresources_and_rewrite), the PDF  *)
(* stage (html_to_pdf) and the per-file drivers (walk_and_process,         *)
(* process_single_file).                                                   *)
(*                                                                         *)
(* Text is modelled as a sequence of one-character strings, so that the    *)
(* regular-expression passes and str.replace are computed character by     *)
(* character as the Python code computes them.  An absent (None) or empty  *)
(* string attribute is the empty sequence: the code tests such attributes  *)
(* only for truthiness.                                                    *)
(***************************************************************************)
EXTENDS Integers, Sequences, FiniteSets, TLC

VARIABLES
    \* ---- one conversion (convert_to_html) ----
    wa,           \* the archive file handed to convert_to_html
    inline,       \* inline_resources flag
    cpc,          \* position in convert_to_html
    html,         \* the HTML output file: [exists, text]
    resdir,       \* <out dir>/resources: sequence of [name, data] files
    produced,     \* which strategy wrote the output ("" while none has)
    tried,        \* strategies attempted so far, in order
    yielded,      \* strategies that yielded usable text before rewriting
    lastrun,      \* the last run of _extract_subresources_and_rewrite
    \* ---- the drivers and the PDF stage ----
    mode,         \* "batch" (walk_and_process) or "single" (process_single_file)
    files,        \* the gathered work list: per file [likely, wa]
    cur,          \* index of the file being processed
    bpc,          \* position in the driver / in html_to_pdf
    flags,        \* [skip_pdf, validate, wk_ok, inline, setup, dry_run]
    disk,         \* per file: [src, quarantined, html, pdf, temps]
    attempt,      \* attempt number of the retry loop
    stats,        \* per file: what the PDF stage did so far
    outcome,      \* per file: how the driver ended for it
    errors,       \* (file, reason) pairs accumulated by walk_and_process
    exit_code,    \* what main returned, -1 while it has not
    roots,        \* the output roots that exist as directories
    \* ---- the name sanitizer applied to one name ----
    arg_name,     \* the name handed to safe_component
    arg_max_len,  \* its max_len argument
    once,         \* safe_component(arg_name, arg_max_len)
    twice,        \* safe_component(once, arg_max_len)
    npc,          \* "start", "once" or "twice"
    \* ---- the quarantine destination of one file ----
    caller,       \* who calls move_failed: "loop", "sidecar" or "single"
    rel,          \* the parts of the file's directory relative to the source root
    fname,        \* src_file.name
    rel_root,     \* the parts of the rel_root argument of move_failed
    dest,         \* the parts of dest below failed_root
    qresult,      \* how the move ended
    qpc,          \* "start", "call" or "moved"
    \* ---- two conversions writing resources side by side ----
    jobs,         \* per conversion: [outdir, resources]
    shared,       \* the resources directory of every output directory
    procs,        \* per conversion: [pc, idx, local, wrote]
    \* ---- the output paths of the files of one batch ----
    srcs,         \* the gathered files: per file [rel_root, name]
    outs          \* per file handled so far: [html, pdf], the parts below the output roots

cvars == <<wa, inline, cpc, html, resdir, produced, tried, yielded, lastrun>>
bvars ==
    <<mode, files, cur, bpc, flags, disk, attempt, stats, outcome, errors, exit_code, roots>>
nvars == <<arg_name, arg_max_len, once, twice, npc>>
qvars == <<caller, rel, fname, rel_root, dest, qresult, qpc>>
pvars == <<jobs, shared, procs>>
ovars == <<srcs, outs>>
vars == <<cvars, bvars, nvars, qvars, pvars, ovars>>

----------------------------------------------------------------------------
(* Text helpers: Python str methods, computed character by character.      *)

UpperLetters == <<"A","B","C","D","E","F","G","H","I","J","K","L","M","N","O","P","Q","R","S","T","U","V","W","X","Y","Z">>
LowerLetters == <<"a","b","c","d","e","f","g","h","i","j","k","l","m","n","o","p","q","r","s","t","u","v","w","x","y","z">>
Digits == <<"0","1","2","3","4","5","6","7","8","9">>

Range(s) == {s[k] : k \in 1..Len(s)}

\* e, with x evaluated first: TLC evaluates a LET definition on demand, and a chain of
\* passes is evaluated pass by pass only if each intermediate text is demanded in turn
Then(x, e) == IF x = x THEN e ELSE e

\* s.find(c) + 1 for a character c: its first index, 0 when absent
IndexIn(c, s) ==
    LET hits == {k \in 1..Len(s) : s[k] = c}
    IN  IF hits = {} THEN 0 ELSE CHOOSE k \in hits : \A j \in hits : k <= j

UpperSet == Range(UpperLetters)
LowerSet == Range(LowerLetters)
LowerOf == [c \in UpperSet |-> LowerLetters[IndexIn(c, UpperLetters)]]
UpperOf == [c \in LowerSet |-> UpperLetters[IndexIn(c, LowerLetters)]]

lower_char(c) == IF c \in UpperSet THEN LowerOf[c] ELSE c

upper_char(c) == IF c \in LowerSet THEN UpperOf[c] ELSE c

\* str.lower()
lower(s) == [k \in 1..Len(s) |-> lower_char(s[k])]

\* str.upper()
upper(s) == [k \in 1..Len(s) |-> upper_char(s[k])]

\* s[i-1:j] of Python, 1-based inclusive here; empty when j < i
Slice(s, i, j) == IF j < i THEN <<>> ELSE SubSeq(s, i, j)

\* s.startswith(p, i-1)
StartsWithAt(s, i, p) ==
    /\ i + Len(p) - 1 <= Len(s)
    /\ \A k \in 1..Len(p) : s[i + k - 1] = p[k]

\* case-insensitive s.startswith(p, i-1) (re.I on a literal), p given in lower case
StartsWithAtCI(s, i, p) ==
    /\ i + Len(p) - 1 <= Len(s)
    /\ \A k \in 1..Len(p) : lower_char(s[i + k - 1]) = p[k]

\* the least element of a non-empty set of integers, 0 for the empty set
First(hits) == IF hits = {} THEN 0 ELSE CHOOSE k \in hits : \A j \in hits : k <= j
\* the largest of the positions hits, 0 when there is none
Last(hits) == IF hits = {} THEN 0 ELSE CHOOSE k \in hits : \A j \in hits : j <= k

\* s.find(p, i-1) + 1: the first index >= i where p starts, 0 when there is none
FindFrom(s, p, i) == First({k \in i..(Len(s) - Len(p) + 1) : StartsWithAt(s, k, p)})

\* p in s
Contains(s, p) == FindFrom(s, p, 1) > 0

RECURSIVE Flatten(_, _, _)
\* the concatenation of parts[lo..hi]
Flatten(parts, lo, hi) ==
    IF lo > hi THEN <<>>
    ELSE IF lo = hi THEN parts[lo]
    ELSE Flatten(parts, lo, (lo + hi) \div 2) \o Flatten(parts, ((lo + hi) \div 2) + 1, hi)

RECURSIVE ReplaceFrom(_, _, _, _)
\* one step per occurrence of old at or after i
ReplaceFrom(s, i, old, new) ==
    LET at(k) == IF k = 0 THEN Slice(s, i, Len(s))
                 ELSE Slice(s, i, k - 1) \o new \o ReplaceFrom(s, k + Len(old), old, new)
    IN  at(FindFrom(s, old, i))

Interleave(s, i, new) == Flatten([k \in 1..Len(s) |-> new \o <<s[k]>>], 1, Len(s)) \o new

\* str.replace(old, new): every non-overlapping occurrence, left to right;
\* an empty old inserts new before every character and at the end
replace(s, old, new) ==
    IF old = <<>> THEN Interleave(s, 1, new) ELSE ReplaceFrom(s, 1, old, new)

\* the characters \s of a regular expression matches, and str.strip() strips
Whitespace == {" ", "\n", "\t", "\r"}

\* the index after a maximal run of whitespace starting at i
SkipWs(s, i) ==
    LET k == First({j \in i..Len(s) : s[j] \notin Whitespace})
    IN  IF k = 0 THEN (IF i > Len(s) THEN i ELSE Len(s) + 1) ELSE k

RECURSIVE RStripSet(_, _)
\* str.rstrip(chars)
RStripSet(s, chars) ==
    IF s # <<>> /\ s[Len(s)] \in chars THEN RStripSet(SubSeq(s, 1, Len(s) - 1), chars) ELSE s

RECURSIVE LStripSet(_, _)
\* str.lstrip(chars)
LStripSet(s, chars) ==
    IF s # <<>> /\ s[1] \in chars THEN LStripSet(Tail(s), chars) ELSE s

\* str.strip(chars)
StripSet(s, chars) == LStripSet(RStripSet(s, chars), chars)

\* str.strip()
strip(s) == StripSet(s, Whitespace)

RECURSIVE SplitOn(_, _)
\* str.split(sep) for a one-character sep: always at least one field
SplitOn(s, sep) ==
    LET at(k) == IF k = 0 THEN <<s>>
                 ELSE <<Slice(s, 1, k - 1)>> \o SplitOn(Slice(s, k + 1, Len(s)), sep)
    IN  at(IndexIn(sep, s))

\* the first index of s holding a character of chars, Len(s) + 1 when none does
FirstOf(s, chars) ==
    LET hits == {k \in 1..Len(s) : s[k] \in chars}
    IN  IF hits = {} THEN Len(s) + 1 ELSE CHOOSE k \in hits : \A j \in hits : k <= j

RECURSIVE WsSplit(_)
\* str.split(): fields separated by runs of whitespace, no empty field
WsSplit(s) ==
    LET field(t, e) == <<Slice(t, 1, e - 1)>> \o WsSplit(Slice(t, e, Len(t)))
        fields(t) == IF t = <<>> THEN <<>> ELSE field(t, FirstOf(t, Whitespace))
    IN  fields(LStripSet(s, Whitespace))

RECURSIVE Join(_, _)
\* sep.join(parts)
Join(parts, sep) ==
    IF parts = <<>> THEN <<>>
    ELSE IF Len(parts) = 1 THEN parts[1]
    ELSE parts[1] \o sep \o Join(Tail(parts), sep)

\* s.rfind(c) + 1 for a character c, 0 when absent
RFindChar(s, c) ==
    LET hits == {k \in 1..Len(s) : s[k] = c}
    IN  IF hits = {} THEN 0 ELSE CHOOSE k \in hits : \A j \in hits : j <= k

RECURSIVE NatToText(_)
\* str(n) for a natural number
NatToText(n) == IF n < 10 THEN <<Digits[n + 1]>> ELSE NatToText(n \div 10) \o <<Digits[(n % 10) + 1]>>

----------------------------------------------------------------------------
(* Name sanitizer.                                                         *)

MAX_COMPONENT_LEN == 100

\* INVALID_CHARS_RE: < > : " / \ | ? * and the control characters 0-31
\* (of which the model's alphabet has newline, tab and carriage return)
INVALID_CHARS == {"<", ">", ":", "\"", "/", "\\", "|", "?", "*", "\n", "\t", "\r"}

RESERVED_NAMES ==
    {<<"C","O","N">>, <<"P","R","N">>, <<"A","U","X">>, <<"N","U","L">>}
        \cup {<<"C","O","M">> \o <<Digits[i + 1]>> : i \in 1..9}
        \cup {<<"L","P","T">> \o <<Digits[i + 1]>> : i \in 1..9}

\* INVALID_CHARS_RE.sub("_", name)
sub_invalid(name) == [k \in 1..Len(name) |-> IF name[k] \in INVALID_CHARS THEN "_" ELSE name[k]]

\* the sanitizer without name.rstrip(" .")
keep_trailing(n, m) ==
    LET truncated(c) == IF Len(c) > m THEN SubSeq(c, 1, m) ELSE c
        unreserved(b) == truncated(IF upper(b) \in RESERVED_NAMES THEN <<"_">> \o b ELSE b)
    IN  unreserved(IF n = <<>> THEN <<"_">> ELSE sub_invalid(n))

\* the sanitizer without the cut name[:max_len]
untruncated(n, m) ==
    LET unreserved(b) == IF upper(b) \in RESERVED_NAMES THEN <<"_">> \o b ELSE b
        nonempty(a) == unreserved(IF a = <<>> THEN <<"_">> ELSE a)
    IN  nonempty(RStripSet(sub_invalid(n), {" ", "."}))

safe_component(name, max_len) ==
    LET truncated(c) == IF Len(c) > max_len THEN SubSeq(c, 1, max_len) ELSE c
        unreserved(b) == truncated(IF upper(b) \in RESERVED_NAMES THEN <<"_">> \o b ELSE b)
        nonempty(a) == unreserved(IF a = <<>> THEN <<"_">> ELSE a)
    IN  nonempty(RStripSet(sub_invalid(name), {" ", "."}))

----------------------------------------------------------------------------
(* urllib.parse and html.escape, as far as the code uses them.             *)

Letters == UpperSet \cup LowerSet
SchemeChars == Letters \cup Range(Digits) \cup {"+", "-", "."}

\* printable ASCII, code 32 (space) to 126 (~)
\* (the grave accent, code 96, is written as the token "U+0060")
Ascii == <<" ","!","\"","#","$","%","&","'","(",")","*","+",",","-",".","/","0","1","2","3","4","5","6","7","8","9",":",";","<","=",">","?","@","A","B","C","D","E","F","G","H","I","J","K","L","M","N","O","P","Q","R","S","T","U","V","W","X","Y","Z","[","\\","]","^","_">> \o <<"U+0060">>
             \o <<"a","b","c","d","e","f","g","h","i","j","k","l","m","n","o","p","q","r","s","t","u","v","w","x","y","z","{","|","}","~">>
HexDigits == <<"0","1","2","3","4","5","6","7","8","9","A","B","C","D","E","F">>

\* ord(c) for the characters of the model's alphabet
ord(c) ==
    IF c = "\n" THEN 10 ELSE IF c = "\t" THEN 9 ELSE IF c = "\r" THEN 13
    ELSE 31 + IndexIn(c, Ascii)

\* chr(n); a code outside the model's alphabet decodes to the replacement character
chr(n) ==
    IF n = 10 THEN "\n" ELSE IF n = 9 THEN "\t" ELSE IF n = 13 THEN "\r"
    ELSE IF n \in 32..126 THEN Ascii[n - 31] ELSE "U+FFFD"

\* the characters quote() never encodes
ALWAYS_SAFE == Letters \cup Range(Digits) \cup {"_", ".", "-", "~"}

quote_char(c, safe) ==
    IF c \in ALWAYS_SAFE \/ c \in safe THEN <<c>>
    ELSE <<"%", HexDigits[(ord(c) \div 16) + 1], HexDigits[(ord(c) % 16) + 1]>>

\* urllib.parse.quote(s, safe=safe)
quote(s, safe) == Flatten([k \in 1..Len(s) |-> quote_char(s[k], safe)], 1, Len(s))

HexSet == Range(HexDigits)
IsHex(c) == upper_char(c) \in HexSet
HexVal(c) == IndexIn(upper_char(c), HexDigits) - 1

\* a %XX escape starts at i (its two hex digits cannot start another escape)
IsEscapeAt(s, i) ==
    i >= 1 /\ i + 2 <= Len(s) /\ s[i] = "%" /\ IsHex(s[i + 1]) /\ IsHex(s[i + 2])

\* urllib.parse.unquote(s)
unquote(s) ==
    Flatten([i \in 1..Len(s) |->
                IF IsEscapeAt(s, i) THEN <<chr(16 * HexVal(s[i + 1]) + HexVal(s[i + 2]))>>
                ELSE IF IsEscapeAt(s, i - 1) \/ IsEscapeAt(s, i - 2) THEN <<>>
                ELSE <<s[i]>>], 1, Len(s))

escape_char(c) ==
    IF c = "&" THEN <<"&","a","m","p",";">> ELSE IF c = "<" THEN <<"&","l","t",";">> ELSE IF c = ">" THEN <<"&","g","t",";">>
    ELSE IF c = "\"" THEN <<"&","q","u","o","t",";">> ELSE IF c = "'" THEN <<"&","#","x","2","7",";">> ELSE <<c>>

\* html.escape(s)
html_escape(s) == Flatten([k \in 1..Len(s) |-> escape_char(s[k])], 1, Len(s))

\* urllib.parse.urlparse(url) (urlsplit; a ';' parameter part is not modelled):
\* raises is the ValueError("Invalid IPv6 URL") of an unbalanced bracket in the netloc
urlparse(url0) ==
    LET query(scheme, netloc, raises, url4, fragment, q) ==
            [scheme |-> scheme, netloc |-> netloc,
             path |-> IF q > 0 THEN Slice(url4, 1, q - 1) ELSE url4,
             query |-> IF q > 0 THEN Slice(url4, q + 1, Len(url4)) ELSE <<>>,
             fragment |-> fragment, raises |-> raises]
        fragment(scheme, netloc, raises, url3, h) ==
            IF h > 0
            THEN query(scheme, netloc, raises, Slice(url3, 1, h - 1),
                       Slice(url3, h + 1, Len(url3)), IndexIn("?", Slice(url3, 1, h - 1)))
            ELSE query(scheme, netloc, raises, url3, <<>>, IndexIn("?", url3))
        rest(scheme, netloc, raises, url3) ==
            fragment(scheme, netloc, raises, url3, IndexIn("#", url3))
        net(scheme, after, cut) ==
            rest(scheme, Slice(after, 1, cut - 1),
                 ("[" \in Range(Slice(after, 1, cut - 1)))
                     # ("]" \in Range(Slice(after, 1, cut - 1))),
                 Slice(after, cut, Len(after)))
        netloc(scheme, url2) ==
            IF StartsWithAt(url2, 1, <<"/","/">>)
            THEN net(scheme, Slice(url2, 3, Len(url2)),
                     FirstOf(Slice(url2, 3, Len(url2)), {"/", "?", "#"}))
            ELSE rest(scheme, <<>>, FALSE, url2)
        scheme(url1, i) ==
            IF /\ i > 1
               /\ url1[1] \in Letters
               /\ \A k \in 1..(i - 1) : url1[k] \in SchemeChars
            THEN netloc(lower(Slice(url1, 1, i - 1)), Slice(url1, i + 1, Len(url1)))
            ELSE netloc(<<>>, url1)
        stripped(url1) == scheme(url1, IndexIn(":", url1))
    IN  stripped(SelectSeq(LStripSet(url0, Whitespace),
                           LAMBDA c : c \notin {"\t", "\r", "\n"}))

\* urllib.parse.urlunparse(parsed) (urlunsplit)
urlunparse(p) ==
    LET u1 == IF p.netloc # <<>>
              THEN <<"/","/">> \o p.netloc \o
                   (IF p.path # <<>> /\ p.path[1] # "/" THEN <<"/">> \o p.path ELSE p.path)
              ELSE p.path
        u2 == IF p.scheme # <<>> THEN p.scheme \o <<":">> \o u1 ELSE u1
        u3 == IF p.query # <<>> THEN u2 \o <<"?">> \o p.query ELSE u2
    IN  IF p.fragment # <<>> THEN u3 \o <<"#">> \o p.fragment ELSE u3

\* pathlib: Path(p).name for a path written with forward slashes
path_name(p) ==
    LET parts == SelectSeq(SplitOn(p, "/"), LAMBDA c : c # <<>> /\ c # <<".">>)
    IN  IF parts = <<>> THEN <<>> ELSE parts[Len(parts)]

\* pathlib: Path(name).suffix
path_suffix(name) ==
    LET i == RFindChar(name, ".")
    IN  IF 1 < i /\ i < Len(name) THEN Slice(name, i, Len(name)) ELSE <<>>

\* pathlib: Path(name).stem
path_stem(name) ==
    LET i == RFindChar(name, ".")
    IN  IF 1 < i /\ i < Len(name) THEN Slice(name, 1, i - 1) ELSE name

----------------------------------------------------------------------------
(* The URL mapping (a Python dict: insertion-ordered, keys unique).        *)

dict_has(d, k) == \E n \in 1..Len(d) : d[n].k = k

\* d.get(k): the value, or the empty text for None (every stored value is non-empty)
dict_get(d, k) == IF dict_has(d, k) THEN d[CHOOSE n \in 1..Len(d) : d[n].k = k].v ELSE <<>>

\* d[k] = v: an existing key keeps its position
dict_set(d, k, v) ==
    IF dict_has(d, k) THEN [n \in 1..Len(d) |-> IF d[n].k = k THEN [k |-> k, v |-> v] ELSE d[n]]
    ELSE Append(d, [k |-> k, v |-> v])

RECURSIVE ByLength(_, _)
ByLength(d, n) ==
    IF n < 0 THEN <<>> ELSE SelectSeq(d, LAMBDA e : Len(e.k) = n) \o ByLength(d, n - 1)

MaxKeyLen(d) == IF d = <<>> THEN 0 ELSE CHOOSE n \in {Len(d[j].k) : j \in 1..Len(d)} :
                                          \A j \in 1..Len(d) : Len(d[j].k) <= n

\* sorted(url_to_local.items(), key=lambda kv: -len(kv[0])): stable, longest key first
sorted_items(d) == ByLength(d, MaxKeyLen(d))

----------------------------------------------------------------------------
(* The resources directory: a sequence of files [name, data].              *)

exists(dir, name) == \E n \in 1..Len(dir) : dir[n].name = name

read_file(dir, name) == dir[CHOOSE n \in 1..Len(dir) : dir[n].name = name].data

\* open(path, "wb").write(data): creates the file or truncates an existing one
_write_bytes_file(dir, name, data) ==
    IF exists(dir, name)
    THEN [n \in 1..Len(dir) |-> IF dir[n].name = name THEN [name |-> name, data |-> data] ELSE dir[n]]
    ELSE Append(dir, [name |-> name, data |-> data])

----------------------------------------------------------------------------
(* Resource prober and materializer.                                        *)

\* bytes.decode("utf-8") fails on a byte that is no ASCII character
HIGH_BYTES == {"0xFF"}
utf8_ok(b) == \A n \in 1..Len(b) : b[n] \notin HIGH_BYTES
\* bytes.decode("latin-1") never fails: byte 0xFF is the character U+00FF
latin1_decode(b) == [n \in 1..Len(b) |-> IF b[n] = "0xFF" THEN "U+00FF" ELSE b[n]]
\* data.decode("utf-8"), on failure data.decode("latin-1")
decode_bytes(b) == IF utf8_ok(b) THEN b ELSE latin1_decode(b)

\* str.encode("utf-8"): U+00FF becomes the two bytes C3 BF
encode_utf8(s) ==
    Flatten([k \in 1..Len(s) |-> IF s[k] = "U+00FF" THEN <<"0xC3", "0xBF">> ELSE <<s[k]>>],
            1, Len(s))

\* probe(r): (orig, bytes_data, mime); bytes_data is empty for None
probe(r) ==
    [orig |-> r.url,
     bytes_data |-> IF r.data.kind = "bytes" THEN r.data.val
                    ELSE IF r.data.kind = "str" THEN encode_utf8(r.data.val)
                    ELSE <<>>,
     mime |-> r.mimeType]

\* the fixed MIME -> extension table
mime_ext(mime) ==
    LET ext(lm) ==
            IF Contains(lm, <<"j","p","e","g">>) \/ Contains(lm, <<"j","p","g">>) THEN <<".","j","p","g">>
            ELSE IF Contains(lm, <<"p","n","g">>) THEN <<".","p","n","g">>
            ELSE IF Contains(lm, <<"g","i","f">>) THEN <<".","g","i","f">>
            ELSE IF Contains(lm, <<"s","v","g">>) THEN <<".","s","v","g">>
            ELSE IF Contains(lm, <<"c","s","s">>) THEN <<".","c","s","s">>
            ELSE IF Contains(lm, <<"j","a","v","a","s","c","r","i","p","t">>) \/ Contains(lm, <<"s","c","r","i","p","t">>) THEN <<".","j","s">>
            ELSE IF Contains(lm, <<"h","t","m","l">>) \/ Contains(lm, <<"t","e","x","t">>) THEN <<".","h","t","m","l">>
            ELSE <<>>
    IN  ext(lower(mime))

\* "pick filename" and "determine extension if missing"
pick_filename(orig_url, mime, idx) ==
    LET extended(filename) ==
            IF path_suffix(filename) = <<>> THEN filename \o mime_ext(mime) ELSE filename
        named(candidate) ==
            extended(IF candidate # <<>> THEN safe_component(candidate, MAX_COMPONENT_LEN)
                     ELSE <<"r","e","s","o","u","r","c","e","_">> \o NatToText(idx))
        from_path(path) ==
            named(IF orig_url # <<>> /\ path # <<>> THEN path_name(path) ELSE <<>>)
    IN  from_path(urlparse(orig_url).path)

\* the collision loop left out: every resource keeps its first name
keep_name(dir, filename, i) == filename

RECURSIVE avoid_collisions(_, _, _)
\* "avoid collisions": the first of filename, stem_1.suffix, stem_2.suffix, ... not in dir
avoid_collisions(dir, filename, i) ==
    LET free(name) == IF exists(dir, name) THEN avoid_collisions(dir, filename, i + 1) ELSE name
    IN  free(IF i = 0 THEN filename
             ELSE path_stem(filename) \o <<"_">> \o NatToText(i) \o path_suffix(filename))

\* "map multiple variants of orig_url"
map_variants(url_to_local, orig_url, rel_path) ==
    LET quoted(m3) == dict_set(m3, quote(orig_url, {}), rel_path)
        path_only(m3a, parsed) ==
            IF parsed.path # <<>> THEN dict_set(m3a, parsed.path, rel_path) ELSE m3a
        schemeless(m2, parsed) ==
            quoted(IF parsed.scheme # <<>>
                   THEN path_only(dict_set(m2, urlunparse([parsed EXCEPT !.scheme = <<>>]),
                                           rel_path), parsed)
                   ELSE dict_set(m2, orig_url, rel_path))
        protocol_relative(m1) ==
            schemeless(IF StartsWithAt(orig_url, 1, <<"/","/">>)
                       THEN dict_set(dict_set(m1, <<"h","t","t","p",":">> \o orig_url, rel_path),
                                     <<"h","t","t","p","s",":">> \o orig_url, rel_path)
                       ELSE m1,
                       urlparse(orig_url))
    IN  protocol_relative(dict_set(url_to_local, orig_url, rel_path))

RECURSIVE materialize(_, _, _, _, _)
\* the loop over enumerate(resources, start=1): [raised, dir, url_to_local, assigned]
materialize(resources, idx, dir, url_to_local, assigned) ==
    LET next(dir2, map2, rec) ==
            Then(dir2, Then(map2, materialize(resources, idx + 1, dir2, map2,
                                              Append(assigned, rec))))
        written(p, filename, local) ==
            next(IF p.bytes_data # <<>> THEN _write_bytes_file(dir, local, p.bytes_data)
                 ELSE dir,
                 IF p.orig # <<>> THEN map_variants(url_to_local, p.orig, <<"r","e","s","o","u","r","c","e","s","/">> \o local)
                 ELSE url_to_local,
                 [idx |-> idx, orig |-> p.orig, filename |-> filename, local |-> local,
                  rel |-> <<"r","e","s","o","u","r","c","e","s","/">> \o local, data |-> p.bytes_data])
        named(p, filename) == written(p, filename, avoid_collisions(dir, filename, 0))
        probed(p) ==
            IF p.bytes_data = <<>> /\ p.orig = <<>>
            THEN materialize(resources, idx + 1, dir, url_to_local, assigned)
            ELSE IF p.orig # <<>> /\ urlparse(p.orig).raises
            THEN [raised |-> TRUE, dir |-> dir, url_to_local |-> url_to_local,
                  assigned |-> assigned]
            ELSE named(p, pick_filename(p.orig, p.mime, idx))
    IN  IF idx > Len(resources)
        THEN [raised |-> FALSE, dir |-> dir, url_to_local |-> url_to_local,
              assigned |-> assigned]
        ELSE probed(probe(resources[idx]))

\* for attr in (...): col = getattr(wa, attr); if col: ...; break
\* the first collection of cols that is not empty, the empty one when all are
first_non_empty(cols) ==
    LET taken(k) == IF k = 0 THEN <<>> ELSE cols[k]
    IN  taken(First({n \in 1..Len(cols) : cols[n] # <<>>}))

\* "collect resources from webarchive", plus the main resource: the attributes probed
\* are subresources, _subresources, resources, web_resources, WebResources
collect_resources(w) ==
    first_non_empty(<<w.subresources, w.resources>>)
        \o (IF w.main_resource.present THEN <<w.main_resource.r>> ELSE <<>>)

----------------------------------------------------------------------------
(* The rewrite passes of _extract_subresources_and_rewrite.                *)

Quotes == {"\"", "'"}
NoMatch == [ok |-> FALSE, q |-> "", vs |-> 0, ve |-> 0, end |-> 0]

\* the first index >= i holding a character of chars, 0 when there is none
NextChar(t, i, chars) == First({k \in i..Len(t) : t[k] \in chars})

\* \s*=\s*(['"])(.*?)\1 matched at p: the value is t[vs..ve], the match ends at end
\* ('.' does not match a newline)
QuotedValueAt(t, p) ==
    LET closed(p2, c) ==
            IF c = 0 \/ t[c] # t[p2] THEN NoMatch
            ELSE [ok |-> TRUE, q |-> t[p2], vs |-> p2 + 1, ve |-> c - 1, end |-> c]
        opened(p2) ==
            IF p2 > Len(t) \/ t[p2] \notin Quotes THEN NoMatch
            ELSE closed(p2, NextChar(t, p2 + 1, {t[p2], "\n"}))
        equals(p1) ==
            IF p1 > Len(t) \/ t[p1] # "=" THEN NoMatch ELSE opened(SkipWs(t, p1 + 1))
    IN  equals(SkipWs(t, p))

\* re.search(r"<base\s+[^>]*href\s*=\s*([\"'])(.*?)\1", html_text, flags=re.I)
base_match(t) ==
    \E i \in 1..Len(t) :
        /\ StartsWithAtCI(t, i, <<"<","b","a","s","e">>)
        /\ i + 5 <= Len(t)
        /\ t[i + 5] \in Whitespace
        /\ \E h \in (i + 6)..Len(t) :
              /\ \A k \in (i + 6)..(h - 1) : t[k] # ">"
              /\ StartsWithAtCI(t, h, <<"h","r","e","f">>)
              /\ QuotedValueAt(t, h + 4).ok

\* re.search(r"(?i)<head[^>]*>", html_text): the index of the closing '>' of the
\* leftmost match at or after i, 0 when there is none
head_match(t, i) ==
    LET closing(h) == IF h = 0 THEN 0 ELSE NextChar(t, h + 5, {">"})
    IN  closing(First({k \in i..Len(t) : StartsWithAtCI(t, k, <<"<","h","e","a","d">>)}))

\* "If no base tag exists ... inject a <base>": the template r"\1\n<base href=\"./\">" of
\* re.sub keeps the backslash of \" (an unknown escape of a non-letter is left alone)
inject_base(t) ==
    LET injected(e) ==
            IF e > 0
            THEN Slice(t, 1, e) \o <<"\n","<","b","a","s","e"," ","h","r","e","f","=","\\","\"",".","/","\\","\"",">">> \o Slice(t, e + 1, Len(t))
            ELSE <<"<","h","e","a","d",">","<","b","a","s","e"," ","h","r","e","f","=","\"",".","/","\"",">","<","/","h","e","a","d",">","\n">> \o t
    IN  IF base_match(t) THEN t ELSE injected(head_match(t, 1))

RECURSIVE srcset_parts(_, _)
\* the loop of replace_srcset over the stripped comma-separated parts
srcset_parts(parts, url_to_local) ==
    LET looked_up(u, uq) ==
            IF dict_has(url_to_local, u) THEN dict_get(url_to_local, u)
            ELSE IF dict_has(url_to_local, uq) THEN dict_get(url_to_local, uq)
            ELSE u
        joined(newu, rest) == strip(newu \o (IF rest # <<>> THEN <<" ">> \o rest ELSE <<>>))
        appended(one, more) == [raised |-> more.raised, out |-> <<one>> \o more.out]
        part(comps) ==
            IF comps = <<>> THEN [raised |-> TRUE, out |-> <<>>]   \* comps[0]: IndexError
            ELSE appended(joined(looked_up(comps[1], unquote(comps[1])),
                                 Join(Tail(comps), <<" ">>)),
                          srcset_parts(Tail(parts), url_to_local))
    IN  IF parts = <<>> THEN [raised |-> FALSE, out |-> <<>>]
        ELSE part(WsSplit(strip(parts[1])))

\* replace_srcset(match): [raised, text]
replace_srcset(val, url_to_local) ==
    LET result(r) ==
            [raised |-> r.raised,
             text |-> IF r.raised THEN <<>> ELSE <<"s","r","c","s","e","t","=","\"">> \o Join(r.out, <<","," ">>) \o <<"\"">>]
    IN  result(srcset_parts(SplitOn(val, ","), url_to_local))

\* srcset\s*=\s*Q([^Q]+)Q matched at i (re.I), for the quote character Q
SrcsetMatchAt(t, i, q) ==
    LET closed(p2, c) ==
            IF c = 0 \/ c = p2 + 1 THEN NoMatch
            ELSE [ok |-> TRUE, q |-> q, vs |-> p2 + 1, ve |-> c - 1, end |-> c]
        opened(p2) ==
            IF p2 > Len(t) \/ t[p2] # q THEN NoMatch ELSE closed(p2, NextChar(t, p2 + 1, {q}))
        equals(p1) ==
            IF p1 > Len(t) \/ t[p1] # "=" THEN NoMatch ELSE opened(SkipWs(t, p1 + 1))
    IN  IF StartsWithAtCI(t, i, <<"s","r","c","s","e","t">>) THEN equals(SkipWs(t, i + 6)) ELSE NoMatch

RECURSIVE sub_srcset(_, _, _, _)
\* re.sub(r'srcset\s*=\s*Q([^Q]+)Q', replace_srcset, rewritten, flags=re.I): [raised, text];
\* one step per match, the leftmost at or after i
sub_srcset(t, i, q, url_to_local) ==
    LET spliced(k, r, more) ==
            IF r.raised THEN [raised |-> TRUE, text |-> <<>>]
            ELSE [raised |-> more.raised, text |-> Slice(t, i, k - 1) \o r.text \o more.text]
        matched(k, m) ==
            spliced(k, replace_srcset(Slice(t, m.vs, m.ve), url_to_local),
                    sub_srcset(t, m.end + 1, q, url_to_local))
        leftmost(k) ==
            IF k = 0 THEN [raised |-> FALSE, text |-> Slice(t, i, Len(t))]
            ELSE matched(k, SrcsetMatchAt(t, k, q))
    IN  leftmost(First({j \in i..Len(t) : SrcsetMatchAt(t, j, q).ok}))

\* url_to_local.get(v) or url_to_local.get(unquote(v)) or v
lookup_or_keep(url_to_local, v) ==
    LET first_of(a, b) == IF a # <<>> THEN a ELSE IF b # <<>> THEN b ELSE v
    IN  first_of(dict_get(url_to_local, v), dict_get(url_to_local, unquote(v)))

\* attr\s*=\s*(['"])(.*?)\1 matched at i (re.I)
AttrMatchAt(t, i, attr) ==
    IF StartsWithAtCI(t, i, attr) THEN QuotedValueAt(t, i + Len(attr)) ELSE NoMatch

RECURSIVE sub_attr(_, _, _, _)
\* re.compile(rf'{attr}\s*=\s*([\'"])(.*?)\1', flags=re.I).sub(lambda m: ..., rewritten);
\* one step per match, the leftmost at or after i
sub_attr(t, i, attr, url_to_local) ==
    LET matched(k, m) ==
            Slice(t, i, k - 1) \o attr \o <<"=">> \o <<m.q>>
                \o lookup_or_keep(url_to_local, Slice(t, m.vs, m.ve))
                \o <<m.q>> \o sub_attr(t, m.end + 1, attr, url_to_local)
        leftmost(k) == IF k = 0 THEN Slice(t, i, Len(t)) ELSE matched(k, AttrMatchAt(t, k, attr))
    IN  leftmost(First({j \in i..Len(t) : AttrMatchAt(t, j, attr).ok}))

\* the attributes of the "common attributes" pass, in the order of the loop
REWRITE_ATTRS == <<<<"s","r","c">>, <<"h","r","e","f">>, <<"p","o","s","t","e","r">>, <<"d","a","t","a","-","s","r","c">>, <<"d","a","t","a","-","h","i","r","e","s">>>>

RECURSIVE attr_passes(_, _, _)
attr_passes(t, n, url_to_local) ==
    LET next(t1) == Then(t1, attr_passes(t1, n + 1, url_to_local))
    IN  IF n > Len(REWRITE_ATTRS) THEN t
        ELSE next(sub_attr(t, 1, REWRITE_ATTRS[n], url_to_local))

\* url\(\s*([^)]+?)\s*\) matched at i (re.I): the index of the closing ')', else 0
CssMatchAt(t, i) ==
    LET closing(c) == IF c > i + 4 THEN c ELSE 0
    IN  IF StartsWithAtCI(t, i, <<"u","r","l","(">>) THEN closing(NextChar(t, i + 4, {")"})) ELSE 0

RECURSIVE sub_css(_, _, _)
\* re.sub(r'url\(\s*([^)]+?)\s*\)', css_url_repl, rewritten, flags=re.I);
\* one step per match, the leftmost at or after i
sub_css(t, i, url_to_local) ==
    LET replaced(k, c, local) ==
            Slice(t, i, k - 1)
                \o (IF local # <<>> THEN <<"u","r","l","(","\"">> \o local \o <<"\"",")">> ELSE Slice(t, k, c))
                \o sub_css(t, c + 1, url_to_local)
        looked_up(k, c, inner) ==
            replaced(k, c, IF dict_get(url_to_local, inner) # <<>>
                           THEN dict_get(url_to_local, inner)
                           ELSE dict_get(url_to_local, unquote(inner)))
        matched(k, c) == looked_up(k, c, StripSet(strip(Slice(t, k + 4, c - 1)), Quotes))
        leftmost(k) == IF k = 0 THEN Slice(t, i, Len(t)) ELSE matched(k, CssMatchAt(t, k))
    IN  leftmost(First({j \in i..Len(t) : CssMatchAt(t, j) > 0}))

RECURSIVE final_pass(_, _, _)
\* "As a last pass, replace any full original URLs we mapped (longer first)"
final_pass(t, items, n) ==
    LET quoted(t3) == Then(t3, final_pass(t3, items, n + 1))
        escaped(t2) == Then(t2, quoted(replace(t2, quote(items[n].k, {"/"}), items[n].v)))
        plain(t1) == Then(t1, escaped(replace(t1, html_escape(items[n].k), items[n].v)))
    IN  IF n > Len(items) THEN t ELSE plain(replace(t, items[n].k, items[n].v))

\* the order in which the last pass takes the mapping
final_order(url_to_local) == sorted_items(url_to_local)

\* the passes from base injection to the last pass: [raised, text]
rewrite(html_text, url_to_local) ==
    LET css(c) == Then(c, final_pass(c, final_order(url_to_local), 1))
        attrs(a) == Then(a, css(sub_css(a, 1, url_to_local)))
        single(s2) ==
            IF s2.raised THEN [raised |-> TRUE, text |-> <<>>]
            ELSE [raised |-> FALSE, text |-> attrs(attr_passes(s2.text, 1, url_to_local))]
        double(s1) ==
            IF s1.raised THEN [raised |-> TRUE, text |-> <<>>]
            ELSE single(sub_srcset(s1.text, 1, "'", url_to_local))
        based(b) == Then(b, double(sub_srcset(b, 1, "\"", url_to_local)))
    IN  based(inject_base(html_text))

\* _extract_subresources_and_rewrite(html_text, wa, out_html_path, "resources"), for the
\* resources directory dir: [raised, text, dir, url_to_local, assigned]
_extract_subresources_and_rewrite(html_text, w, dir) ==
    LET rewritten(m, r) ==
            [raised |-> m.raised \/ r.raised,
             loop_raised |-> m.raised,
             text |-> IF m.raised \/ r.raised THEN <<>> ELSE r.text,
             input |-> html_text,
             dir |-> m.dir, url_to_local |-> m.url_to_local, assigned |-> m.assigned]
        materialized(m) == Then(m, rewritten(m, rewrite(html_text, m.url_to_local)))
    IN  materialized(materialize(collect_resources(w), 1, dir, <<>>, <<>>))

----------------------------------------------------------------------------
(* The document resolver: the four strategies of convert_to_html.  The      *)
(* archive w is [parse_ok, to_html: [kind, text], main_resource:            *)
(* [present, r], subresources, resources, subframe_archives]; the other     *)
(* attribute names the code probes (_main_resource, _subresources,          *)
(* web_resources, WebResources, resourcesList, subframe) are absent from    *)
(* the modelled containers.  to_html.kind is "absent" (no such              *)
(* attribute), "raises" or "text".  The model takes dry_run = False and     *)
(* pywebarchive installed.                                                  *)

\* the name of the source file, src_path.name
SrcName == <<"a",".","w","e","b","a","r","c","h","i","v","e">>

NoRun ==
    [ran |-> FALSE, input |-> <<>>, dir0 |-> <<>>, raised |-> FALSE, loop_raised |-> FALSE,
     text |-> <<>>,
     dir |-> <<>>, url_to_local |-> <<>>, assigned |-> <<>>]

\* a strategy that wrote nothing
Skip(dir) == [usable |-> FALSE, wrote |-> FALSE, text |-> <<>>, dir |-> dir, run |-> NoRun]

\* if inline_resources: html_text = _extract_subresources_and_rewrite(...)
\* _write_text_file(web_out, html_text); return
\* an exception of the rewrite is caught by the strategy's except clause: nothing is
\* written and the cascade goes on
write_document(text, w, inl, dir) ==
    LET ran(r) ==
            [usable |-> text # <<>>, wrote |-> ~r.raised, text |-> r.text, dir |-> r.dir,
             run |-> [ran |-> TRUE, input |-> text, dir0 |-> dir, raised |-> r.raised,
                      loop_raised |-> r.loop_raised, text |-> r.text, dir |-> r.dir, url_to_local |-> r.url_to_local,
                      assigned |-> r.assigned]]
    IN  IF inl THEN ran(_extract_subresources_and_rewrite(text, w, dir))
        ELSE [usable |-> text # <<>>, wrote |-> TRUE, text |-> text, dir |-> dir,
              run |-> NoRun]

\* if hasattr(wa, "to_html"): html_text = wa.to_html(); if html_text: ...
direct_render(w, inl, dir) ==
    IF w.to_html.kind = "text" /\ w.to_html.text # <<>>
    THEN write_document(w.to_html.text, w, inl, dir)
    ELSE Skip(dir)

\* inspect_resource_obj(obj): (mime, data), bytes decoded as utf-8 then latin-1
inspect_resource_obj(r) ==
    [mime |-> r.mimeType,
     text |-> IF r.data.kind = "bytes" THEN decode_bytes(r.data.val)
              ELSE IF r.data.kind = "str" THEN r.data.val
              ELSE <<>>]

\* the candidates of _guess_html_resource_from_wa: the main resource, then the members
\* of every collection among resources, web_resources, WebResources, resourcesList,
\* subresources, _subresources
candidates(w) ==
    (IF w.main_resource.present THEN <<w.main_resource.r>> ELSE <<>>)
        \o w.resources \o w.subresources

\* the first candidate with "html" in its MIME type and non-empty text; (None, None) is
\* the pair of empty texts
_guess_html_resource_from_wa(w) ==
    LET html_like(x) == x.mime # <<>> /\ Contains(lower(x.mime), <<"h","t","m","l">>) /\ x.text # <<>>
        found(c, hit) ==
            IF hit = 0 THEN [mime |-> <<>>, text |-> <<>>] ELSE inspect_resource_obj(c[hit])
        among(c) == found(c, First({n \in 1..Len(c) : html_like(inspect_resource_obj(c[n]))}))
    IN  among(candidates(w))

\* a strategy that found text rewrites and writes it, one that found none is skipped
write_if(found, text, w, inl, dir) ==
    IF found THEN write_document(text, w, inl, dir) ELSE Skip(dir)

\* mime, html_text = _guess_html_resource_from_wa(wa); if mime and html_text: ...
guessed_html(w, inl, dir) ==
    LET g == _guess_html_resource_from_wa(w)
    IN  write_if(g.mime # <<>> /\ g.text # <<>>, g.text, w, inl, dir)

\* the main-resource branch: a bytes payload is decoded and written when non-empty, a
\* str payload is written as it is
raw_main(w, inl, dir) ==
    LET data == w.main_resource.r.data
        text == IF data.kind = "bytes" THEN decode_bytes(data.val) ELSE data.val
    IN  write_if(/\ w.main_resource.present
                 /\ (data.kind = "bytes" /\ text # <<>>) \/ data.kind = "str",
                 text, w, inl, dir)

\* f"{x}" of an attribute that is None
OrNone(x) == IF x = <<>> THEN <<"N","o","n","e">> ELSE x

\* the collection listed is the first non-empty one among subresources, _subresources,
\* subframe_archives, subframe
_build_index_from_wa(w, src_name) ==
    LET head == << <<"<","!","d","o","c","t","y","p","e"," ","h","t","m","l",">">>, <<"<","h","t","m","l",">","<","h","e","a","d",">","<","m","e","t","a"," ","c","h","a","r","s","e","t","=","'","u","t","f","-","8","'",">">>,
                   <<"<","t","i","t","l","e",">","I","n","d","e","x"," ","o","f"," ">> \o src_name \o <<"<","/","t","i","t","l","e",">">>, <<"<","/","h","e","a","d",">","<","b","o","d","y",">">>,
                   <<"<","h","1",">","I","n","d","e","x"," ","o","f"," ","r","e","s","o","u","r","c","e","s"," ","i","n"," ">> \o src_name \o <<"<","/","h","1",">">>, <<"<","u","l",">">> >>
        mr == w.main_resource.r
        main == IF w.main_resource.present
                THEN << <<"<","l","i",">","M","a","i","n"," ","r","e","s","o","u","r","c","e",":"," ">> \o (IF mr.url # <<>> THEN mr.url ELSE <<"m","a","i","n">>)
                        \o <<" ","(","m","i","m","e","=">> \o OrNone(mr.mimeType) \o <<")","<","/","l","i",">">> >>
                ELSE <<>>
        col == first_non_empty(<<w.subresources, w.subframe_archives>>)
        subs == [n \in 1..Len(col) |->
                   LET r == col[n]
                   IN  <<"<","l","i",">","R","e","s","o","u","r","c","e",":"," ">>
                       \o (IF r.url # <<>> THEN r.url ELSE <<"r","e","s","o","u","r","c","e","_">> \o NatToText(n))
                       \o <<" ","(","m","i","m","e","=">> \o OrNone(r.mimeType) \o <<")","<","/","l","i",">">>]
    IN  Join(head \o main \o subs \o << <<"<","/","u","l",">","<","/","b","o","d","y",">","<","/","h","t","m","l",">">> >>, <<"\n">>)

\* idx = _build_index_from_wa(wa, src_path.name); _write_text_file(web_out, idx)
synth_index(w, inl, dir) ==
    [usable |-> TRUE, wrote |-> TRUE, text |-> _build_index_from_wa(w, SrcName),
     dir |-> dir, run |-> NoRun]

\* the stage trace tr after entering stage, which is no new entry when the file is
\* in that stage already
Enter(tr, stage) == IF tr # <<>> /\ tr[Len(tr)] = stage THEN tr ELSE Append(tr, stage)

\* the stage trace after the strategy that returned s: it looked for document text and,
\* when it called _extract_subresources_and_rewrite, materialized resources
Through(tr, s) ==
    IF s.run.ran THEN Append(Enter(tr, "resolving"), "materializing")
    ELSE Enter(tr, "resolving")

\* the result of a strategy that wrote the document
Written(s, name, tr) ==
    [raised |-> FALSE, text |-> s.text, dir |-> s.dir, produced |-> name, stages |-> tr]

\* the rest of convert_to_html after the main-resource branch returned s
after_main(w, inl, s, tr) ==
    IF s.wrote THEN Written(s, "main", Through(tr, s))
    ELSE Written(synth_index(w, inl, s.dir), "index", Enter(Through(tr, s), "resolving"))

\* the rest of convert_to_html after the HTML-resource branch returned s
after_guess(w, inl, s, tr) ==
    IF s.wrote THEN Written(s, "guess", Through(tr, s))
    ELSE after_main(w, inl, raw_main(w, inl, s.dir), Through(tr, s))

\* the rest of convert_to_html after the direct rendering returned s
after_direct(w, inl, s, tr) ==
    IF s.wrote THEN Written(s, "direct", Through(tr, s))
    ELSE after_guess(w, inl, guessed_html(w, inl, s.dir), Through(tr, s))

\* convert_to_html(src_path, html_dest, inline_resources=inl) as a whole, for an output
\* directory whose resources directory is dir; stages lists the stages the call went
\* through, the parse of the archive being the start of the resolution
convert_to_html(w, inl, dir) ==
    IF ~w.parse_ok
    THEN [raised |-> TRUE, text |-> <<>>, dir |-> dir, produced |-> "",
          stages |-> <<"resolving">>]
    ELSE after_direct(w, inl, direct_render(w, inl, dir), <<"resolving">>)

----------------------------------------------------------------------------
(* Inputs of the conversion specification.                                  *)

MaxSubs == 2

Bytes(b) == [kind |-> "bytes", val |-> b]
Str(t) == [kind |-> "str", val |-> t]
NoData == [kind |-> "none", val |-> <<>>]
Res(url, mime, data) == [url |-> url, mimeType |-> mime, data |-> data]
NoResource == Res(<<>>, <<>>, NoData)

TenBytes == <<"0","1","2","3","4","5","6","7","8","9">>
ResA == Res(<<"h","t","t","p",":","/","/","x","/","a",".","p","n","g">>, <<"i","m","a","g","e","/","p","n","g">>, Bytes(TenBytes))
ResB == Res(<<"h","t","t","p",":","/","/","x","/","s","/","a",".","p","n","g">>, <<"i","m","a","g","e","/","p","n","g">>, Bytes(<<"b","b">>))
ResC == Res(<<"h","t","t","p",":","/","/","y","/","a",".","p","n","g">>, <<"i","m","a","g","e","/","p","n","g">>, Bytes(<<"c","c">>))
ResN == Res(<<"h","t","t","p",":","/","/","x","/","n",".","c","s","s">>, <<"t","e","x","t","/","c","s","s">>, NoData)
\* a resource with a reference and no payload, named like ResA
ResE == Res(<<"h","t","t","p",":","/","/","y","/","a",".","p","n","g">>, <<"i","m","a","g","e","/","p","n","g">>, NoData)
\* a resource whose URL urllib.parse.urlparse rejects (an unbalanced bracket)
ResBad == Res(<<"h","t","t","p",":","/","/","[","x","/","b",".","p","n","g">>, <<"i","m","a","g","e","/","p","n","g">>, Bytes(<<"b","b">>))

AllSubLists ==
    { <<>>, <<ResA>>, <<ResA, ResC>>, <<ResB, ResA>>, <<ResA, ResB>>, <<ResN, ResA>>,
      <<ResA, ResBad>>, <<ResE, ResA>>, <<ResA, ResC, ResA>> }
SubLists == {l \in AllSubLists : Len(l) <= MaxSubs}

ImgDoc == <<"<","h","t","m","l",">","<","h","e","a","d",">","<","/","h","e","a","d",">","<","b","o","d","y",">","<","i","m","g"," ","s","r","c","=","\"","h","t","t","p",":","/","/","x","/","a",".","p","n","g","\"",">","<","/","b","o","d","y",">","<","/","h","t","m","l",">">>
SrcsetDoc == <<"<","h","t","m","l",">","<","i","m","g"," ","s","r","c","s","e","t","=","\"","a",".","p","n","g"," ","1","x",",","\"",">","<","/","h","t","m","l",">">>
PathDoc == <<"<","b","a","s","e"," ","h","r","e","f","=","\"",".","/","\"",">","<","i","m","g"," ","s","r","c","=","\"","/","s","/","a",".","p","n","g","\"",">">>
ForeignDoc == <<"<","b","a","s","e"," ","h","r","e","f","=","\"",".","/","\"",">","<","i","m","g"," ","s","r","c","=","\"","h","t","t","p",":","/","/","z","/","a",".","p","n","g","\"",">">>
PlainDoc == <<"<","p",">","h","i","<","/","p",">">>
Docs == {ImgDoc, SrcsetDoc, PathDoc, ForeignDoc, PlainDoc}

Absent == [kind |-> "absent", text |-> <<>>]
Raises == [kind |-> "raises", text |-> <<>>]
Text(t) == [kind |-> "text", text |-> t]
ToHtmls == {Absent, Raises, Text(<<>>)} \cup {Text(d) : d \in Docs}

MainUrl == <<"h","t","t","p",":","/","/","x","/","i",".","h","t","m","l">>
NoMain == [present |-> FALSE, r |-> NoResource]
Main(mime, data) == [present |-> TRUE, r |-> Res(MainUrl, mime, data)]
Mains ==
    { NoMain,
      Main(<<"t","e","x","t","/","h","t","m","l">>, Bytes(PlainDoc)), Main(<<"t","e","x","t","/","h","t","m","l">>, Str(PlainDoc)),
      Main(<<"t","e","x","t","/","h","t","m","l">>, Bytes(<<>>)),
      Main(<<>>, Bytes(PlainDoc)), Main(<<>>, Bytes(<<"0xFF">>)),
      Main(<<>>, Str(PlainDoc)), Main(<<>>, Str(<<>>)), Main(<<>>, NoData) }

\* a container that exposes its sub-resources as wa.subresources only
Archive(t, m, subs) ==
    [parse_ok |-> TRUE, to_html |-> t, main_resource |-> m, subresources |-> subs,
     resources |-> <<>>, subframe_archives |-> <<>>]
\* a file WebArchive() cannot parse
Unparsable ==
    [parse_ok |-> FALSE, to_html |-> Absent, main_resource |-> NoMain, subresources |-> <<>>,
     resources |-> <<>>, subframe_archives |-> <<>>]

\* a nested frame archive: an object without url and mimeType
Frame == NoResource

\* the container a with the collection res as wa.resources and frames as
\* wa.subframe_archives
Exposing(a, res, frames) == [a EXCEPT !.resources = res, !.subframe_archives = frames]

\* containers that expose collections under the other attribute names
OtherArchives ==
    { Exposing(Archive(t, m, subs), res, frames) :
        t \in {Absent, Text(ImgDoc)},
        m \in {NoMain, Main(<<"t","e","x","t","/","h","t","m","l">>, Bytes(<<>>))},
        subs \in {<<>>, <<ResC>>},
        res \in {<<>>, <<ResA>>},
        frames \in {<<>>, <<Frame>>} }

Archives ==
    {Unparsable} \cup {Archive(t, m, subs) : t \in ToHtmls, m \in Mains, subs \in SubLists}
        \cup OtherArchives

\* the resources directory before the conversion: fresh, or left by an earlier run
OldDirs == { <<>>, <<[name |-> <<"a",".","p","n","g">>, data |-> <<"o","l","d">>]>> }

----------------------------------------------------------------------------
(* The conversion specification: convert_to_html, one strategy per step.    *)

NamesIdle ==
    /\ arg_name = <<>> /\ arg_max_len = 0 /\ once = <<>> /\ twice = <<>> /\ npc = "idle"

QuarantineIdle ==
    /\ caller = "none" /\ rel = <<>> /\ fname = <<>> /\ rel_root = <<>> /\ dest = <<>>
    /\ qresult = "" /\ qpc = "idle"

ParIdle == jobs = <<>> /\ shared = <<>> /\ procs = <<>>

OutIdle == srcs = <<>> /\ outs = <<>>

BatchIdle ==
    /\ mode = "none" /\ files = <<>> /\ cur = 0 /\ bpc = "idle"
    /\ flags = [skip_pdf |-> TRUE, validate |-> FALSE, wk_ok |-> FALSE, inline |-> FALSE,
                setup |-> "ok", dry_run |-> FALSE]
    /\ disk = <<>> /\ attempt = 0 /\ stats = <<>> /\ outcome = <<>> /\ errors = <<>>
    /\ exit_code = -1 /\ roots = {}

InitConvert ==
    /\ wa \in Archives
    /\ inline \in BOOLEAN
    /\ resdir \in OldDirs
    /\ cpc = "start"
    /\ html = [exists |-> FALSE, text |-> <<>>]
    /\ produced = ""
    /\ tried = <<>>
    /\ yielded = <<>>
    /\ lastrun = NoRun
    /\ BatchIdle /\ NamesIdle /\ QuarantineIdle /\ ParIdle /\ OutIdle

\* wa = WebArchive(web_src): an exception leaves convert_to_html
ParseArchive ==
    /\ cpc = "start"
    /\ cpc' = IF wa.parse_ok THEN "direct" ELSE "raised"
    /\ UNCHANGED <<wa, inline, html, resdir, produced, tried, yielded, lastrun>>
    /\ UNCHANGED <<bvars, nvars, qvars, pvars, ovars>>

\* one strategy of the cascade: s is what it did, next the strategy after it
Strategy(at, name, s, next) ==
    /\ cpc = at
    /\ tried' = Append(tried, name)
    /\ yielded' = IF s.usable THEN Append(yielded, name) ELSE yielded
    /\ resdir' = s.dir
    /\ lastrun' = IF s.run.ran THEN s.run ELSE lastrun
    /\ html' = IF s.wrote THEN [exists |-> TRUE, text |-> s.text] ELSE html
    /\ produced' = IF s.wrote THEN name ELSE produced
    /\ cpc' = IF s.wrote THEN "done" ELSE next
    /\ UNCHANGED <<wa, inline>>
    /\ UNCHANGED <<bvars, nvars, qvars, pvars, ovars>>

DirectRender == \E s \in {direct_render(wa, inline, resdir)} : Strategy("direct", "direct", s, "guess")
GuessedHtml == \E s \in {guessed_html(wa, inline, resdir)} : Strategy("guess", "guess", s, "main")
RawMain == \E s \in {raw_main(wa, inline, resdir)} : Strategy("main", "main", s, "index")
SynthIndex == \E s \in {synth_index(wa, inline, resdir)} : Strategy("index", "index", s, "done")

NextConvert == ParseArchive \/ DirectRender \/ GuessedHtml \/ RawMain \/ SynthIndex

SpecConvert == InitConvert /\ [][NextConvert]_vars

----------------------------------------------------------------------------
(* The PDF stage, the quarantine and the two drivers, with dry_run off       *)
(* (SpecBatch) and with dry_run on (SpecDry).                                *)
(* A file of the work list is [likely, wa]: what the header                  *)
(* heuristic says of it and the archive it holds.  On disk each file has its *)
(* source, its quarantine copy, its HTML output with the resources directory,*)
(* the destination PDF ("none", "old" from an earlier run, "new") and the    *)
(* temporary files of html_to_pdf, named by the attempt that created them.   *)

MaxFiles == 2

\* attempts = 3
attempts == 3

\* a heuristic that lets every file through
always_likely(f) == TRUE

is_likely_webarchive_file(f) == f.likely

\* if dry_run: return True, "dry-run: parsing skipped"; else WebArchive(path) succeeds
is_valid_webarchive_by_parsing(f, dry_run) == dry_run \/ f.wa.parse_ok

\* how the two tries of move_failed can end: shutil.move works; it fails and
\* copy2 + os.remove work; copy2 works and os.remove fails; copy2 fails
MoveResults == {"moved", "copied", "copy_kept", "failed"}

\* how move_failed ends: with dry_run it prints and returns before any of the tries
MoveOutcomes(dry_run) == IF dry_run THEN {"dry_run"} ELSE MoveResults

\* out_html_root, out_pdf_root and failed_root
OutputRoots == {"html", "pdf", "failed"}

\* the output roots before the run: an earlier run that left a PDF left them all
roots_before(pdfs) == IF \E f \in 1..Len(pdfs) : pdfs[f] = "old" THEN OutputRoots ELSE {}

\* move_failed keeps the quarantine copy and leaves the source where it is
copy_without_delete(d, how) ==
    IF how = "failed" THEN d ELSE [d EXCEPT !.quarantined = TRUE]

\* move_failed(src_file, failed_root, rel_root) on the disk record of the file
move_failed(d, how) ==
    IF how \in {"moved", "copied"} THEN [d EXCEPT !.src = FALSE, !.quarantined = TRUE]
    ELSE IF how = "copy_kept" THEN [d EXCEPT !.quarantined = TRUE]
    ELSE d

\* tempfile.mkstemp(prefix="wkpdf_", suffix=".pdf", dir=...); os.close(tmp_fd)
mkstemp(d, tmp) == [d EXCEPT !.temps = @ \cup {tmp}]

\* the cleanup forgets the temporary file
leave_temp(d, tmp) == d

\* the cleanup deletes the HTML output and its resources instead of the temporary file
remove_html(d, tmp) ==
    [d EXCEPT !.html = [exists |-> FALSE, text |-> <<>>], !.resources = <<>>]

\* if os.path.exists(tmp_path_noprefix): os.remove(tmp_path_noprefix); the removal of
\* the file html_to_pdf has just created and closed is taken to succeed
cleanup_temp(d, tmp) == [d EXCEPT !.temps = @ \ {tmp}]

\* os.remove(dst_path_noprefix)
remove_dst(d) == [d EXCEPT !.pdf = "none"]

\* os.replace(tmp_path_noprefix, dst_path_noprefix)
os_replace(d, tmp) == [d EXCEPT !.pdf = "new", !.temps = @ \ {tmp}]

\* the files convert_to_html leaves in the output directory
write_outputs(d, r) ==
    [d EXCEPT !.html = [exists |-> TRUE, text |-> r.text], !.resources = r.dir]

FreshDisk(p) ==
    [src |-> TRUE, quarantined |-> FALSE, html |-> [exists |-> FALSE, text |-> <<>>],
     resources |-> <<>>, pdf |-> p, temps |-> {}]

\* the history of a file: renderer runs and failures, failures of the final move,
\* temporary files created and removed, PDFs placed, how move_failed ended, the
\* destination PDF at the start, the outputs convert_to_html wrote, how often the loop
\* took the file, how often WebArchive() and convert_to_html were called for it, and
\* the stages it went through
NoStats(p) ==
    [runs |-> 0, rfail |-> 0, mfail |-> 0, created |-> 0, removed |-> 0, placed |-> 0,
     move |-> "", pdf0 |-> p, html |-> [exists |-> FALSE, text |-> <<>>],
     resources |-> <<>>, visits |-> 0, parses |-> 0, converts |-> 0, stages |-> <<>>]

\* st after the step that took the disk record from d0 to d1
Cleaned(st, d0, d1) == [st EXCEPT !.removed = @ + Cardinality(d0.temps \ d1.temps)]

\* a convertible archive (its rewriting raises when resources are inlined), a file
\* with the looks of an archive that does not parse, and a file without the looks
FileKinds ==
    { [likely |-> TRUE, wa |-> Archive(Text(SrcsetDoc), NoMain, <<ResA>>)],
      [likely |-> TRUE, wa |-> Unparsable],
      [likely |-> FALSE, wa |-> Unparsable] }

\* how the start of walk_and_process ends: it goes on to gather the files, the source
\* root does not exist, or creating an output root raises
SetupResults == {"ok", "no_src", "mkdir_fails"}

FileLists == UNION {[1..n -> FileKinds] : n \in 0..MaxFiles}

ConvertIdle ==
    /\ wa = Unparsable /\ inline = FALSE /\ cpc = "idle"
    /\ html = [exists |-> FALSE, text |-> <<>>] /\ resdir = <<>>
    /\ produced = "" /\ tried = <<>> /\ yielded = <<>> /\ lastrun = NoRun

\* main with the parsed arguments, --dry-run given or not
InitDrivers(dry_run) ==
    /\ mode \in {"batch", "single"}
    /\ files \in FileLists
    /\ mode = "single" => Len(files) = 1
    /\ flags \in [skip_pdf : BOOLEAN, validate : BOOLEAN, wk_ok : BOOLEAN, inline : BOOLEAN,
                  setup : SetupResults, dry_run : {dry_run}]
    \* a run that fails in the setup gathers no files
    /\ flags.setup # "ok" => mode = "batch" /\ files = <<>>
    /\ \E pdfs \in [1..Len(files) -> {"none", "old"}] :
          \* only a file that converts has its destination PDF looked at
          /\ \A f \in 1..Len(files) : pdfs[f] = "old" => files[f].wa.parse_ok
          /\ disk = [f \in 1..Len(files) |-> FreshDisk(pdfs[f])]
          /\ stats = [f \in 1..Len(files) |-> NoStats(pdfs[f])]
          /\ roots = roots_before(pdfs)
    /\ cur = 0
    /\ bpc = IF mode = "batch" THEN "setup" ELSE "file"
    /\ attempt = 0
    /\ outcome = [f \in 1..Len(files) |-> "pending"]
    /\ errors = <<>>
    /\ exit_code = -1
    /\ ConvertIdle /\ NamesIdle /\ QuarantineIdle /\ ParIdle /\ OutIdle

InitBatch == InitDrivers(FALSE)

\* the driver is done with the current file: "continue" or the end of the loop body in
\* walk_and_process, "return" in process_single_file
Finish(result) ==
    /\ outcome' = [outcome EXCEPT ![cur] = result]
    /\ bpc' = IF mode = "batch" THEN "file" ELSE "done"

\* a driver that records no error
keep_errors(reason) == errors' = errors

\* errors.append((str(src_file), reason)), in walk_and_process only
Report(reason) ==
    errors' = IF mode = "batch" THEN Append(errors, <<cur, reason>>) ELSE errors

\* try: move_failed(...) except Exception as me: print(...); without dry_run
\* move_failed creates the directory below failed_root before it tries to move
Quarantine(result, st) ==
    /\ \E how \in MoveOutcomes(flags.dry_run) :
          /\ disk' = [disk EXCEPT ![cur] = move_failed(disk[cur], how)]
          /\ stats' = [stats EXCEPT ![cur] = [st EXCEPT !.move = how]]
    /\ roots' = IF flags.dry_run THEN roots ELSE roots \cup {"failed"}
    /\ Finish(result)

\* a file fails the heuristic or the validation: walk_and_process records the error and
\* quarantines the file, process_single_file returns False
Rejected(reason, result, st) ==
    /\ Report(reason)
    /\ IF mode = "batch" THEN Quarantine(result, st)
       ELSE Finish(result) /\ stats' = [stats EXCEPT ![cur] = st] /\ UNCHANGED <<disk, roots>>

\* for src_file in iterator
NextFile ==
    /\ bpc = "file"
    /\ IF cur < Len(files)
       THEN /\ cur' = cur + 1
            /\ bpc' = "heuristic"
            /\ stats' = [stats EXCEPT ![cur + 1].visits = @ + 1,
                                      ![cur + 1].stages = Enter(@, "validating")]
       ELSE cur' = cur /\ bpc' = "done" /\ UNCHANGED stats
    /\ UNCHANGED <<mode, files, flags, disk, attempt, outcome, errors, exit_code, roots>>
    /\ UNCHANGED <<cvars, nvars, qvars, pvars, ovars>>

\* if not is_likely_webarchive_file(src_file): ...
CheckHeuristic ==
    /\ bpc = "heuristic"
    /\ IF is_likely_webarchive_file(files[cur])
       THEN bpc' = "validate" /\ UNCHANGED <<disk, stats, outcome, errors, roots>>
       ELSE Rejected("heuristic validation failed", "heuristic_failed", stats[cur])
    /\ UNCHANGED <<mode, files, cur, flags, attempt, exit_code>>
    /\ UNCHANGED <<cvars, nvars, qvars, pvars, ovars>>

\* if validate: valid, msg = is_valid_webarchive_by_parsing(src_file)
Validate ==
    /\ bpc = "validate"
    /\ IF ~flags.validate
       THEN bpc' = "convert" /\ UNCHANGED <<disk, stats, outcome, errors, roots>>
       ELSE IF is_valid_webarchive_by_parsing(files[cur], flags.dry_run)
       THEN /\ bpc' = "convert"
            /\ stats' = [stats EXCEPT ![cur].parses = IF flags.dry_run THEN @ ELSE @ + 1]
            /\ UNCHANGED <<disk, outcome, errors, roots>>
       ELSE Rejected("parsing validation failed", "invalid",
                     [stats[cur] EXCEPT !.parses = @ + 1])
    /\ UNCHANGED <<mode, files, cur, flags, attempt, exit_code>>
    /\ UNCHANGED <<cvars, nvars, qvars, pvars, ovars>>

\* the history st after a call of convert_to_html that returned r: the archive was
\* parsed and the call went through the stages of r
Called(st, r) ==
    [st EXCEPT !.parses = @ + 1, !.converts = @ + 1, !.stages = @ \o r.stages]

\* the test "if (not skip_pdf) and wkhtml_path" after convert_to_html returned
AfterConvert ==
    IF flags.skip_pdf THEN Finish("ok") /\ UNCHANGED attempt
    ELSE attempt' = 1 /\ bpc' = "html_to_pdf" /\ UNCHANGED outcome

\* convert_to_html(src_file, out_html, dry_run=dry_run, inline_resources=inline_resources):
\* with dry_run it returns after ensure_parent, which returns at once too; without, it
\* creates the directory of out_html and converts, and an exception goes to the outer
\* handler
Convert ==
    /\ bpc = "convert"
    /\ IF flags.dry_run
       THEN /\ stats' = [stats EXCEPT ![cur].converts = @ + 1]
            /\ AfterConvert
            /\ UNCHANGED <<disk, roots>>
       ELSE /\ roots' = roots \cup {"html"}
            /\ \E r \in {convert_to_html(files[cur].wa, flags.inline, disk[cur].resources)} :
                  IF r.raised
                  THEN /\ bpc' = "handler"
                       /\ stats' = [stats EXCEPT ![cur] = Called(@, r)]
                       /\ UNCHANGED <<disk, outcome, attempt>>
                  ELSE /\ disk' = [disk EXCEPT ![cur] = write_outputs(@, r)]
                       /\ stats' = [stats EXCEPT ![cur] =
                                       [Called(@, r) EXCEPT !.html = [exists |-> TRUE,
                                                                     text |-> r.text],
                                                            !.resources = r.dir]]
                       /\ AfterConvert
    /\ UNCHANGED <<mode, files, cur, flags, errors, exit_code>>
    /\ UNCHANGED <<cvars, nvars, qvars, pvars, ovars>>

\* html_to_pdf raised: the retry loop sleeps and tries again, or gives up after the
\* last attempt (walk_and_process records "PDF error", process_single_file returns
\* False); d and st are the disk record and the history the attempt leaves
AttemptFailed(d, st) ==
    /\ disk' = [disk EXCEPT ![cur] = d]
    /\ stats' = [stats EXCEPT ![cur] = Cleaned(st, disk[cur], d)]
    /\ IF attempt < attempts
       THEN attempt' = attempt + 1 /\ bpc' = "html_to_pdf" /\ UNCHANGED <<outcome, errors>>
       ELSE Finish("pdf_failed") /\ Report("PDF error") /\ UNCHANGED attempt

\* html_to_pdf up to mkstemp: with dry_run it returns at once and the retry loop
\* breaks; FileNotFoundError when wkhtmltopdf is not a file; else the directory of the
\* destination is created
StartPdf ==
    /\ bpc = "html_to_pdf"
    /\ IF flags.dry_run
       THEN Finish("ok") /\ UNCHANGED <<disk, stats, attempt, errors, roots>>
       ELSE IF ~flags.wk_ok
       THEN /\ AttemptFailed(disk[cur], [stats[cur] EXCEPT !.stages = Enter(@, "rendering")])
            /\ UNCHANGED roots
       ELSE /\ disk' = [disk EXCEPT ![cur] = mkstemp(@, attempt)]
            /\ stats' = [stats EXCEPT ![cur].created = @ + 1,
                                      ![cur].stages = Enter(@, "rendering")]
            /\ roots' = roots \cup {"pdf"}
            /\ bpc' = "render"
            /\ UNCHANGED <<attempt, outcome, errors>>
    /\ UNCHANGED <<mode, files, cur, flags, exit_code>>
    /\ UNCHANGED <<cvars, nvars, qvars, pvars, ovars>>

\* subprocess.run(cmd, check=True, ...): the renderer exits with 0 or not
RunRenderer ==
    /\ bpc = "render"
    /\ \E exit_ok \in BOOLEAN :
          IF exit_ok
          THEN /\ stats' = [stats EXCEPT ![cur].runs = @ + 1]
               /\ bpc' = "move"
               /\ UNCHANGED <<disk, attempt, outcome, errors>>
          ELSE AttemptFailed(cleanup_temp(disk[cur], attempt),
                             [stats[cur] EXCEPT !.runs = @ + 1, !.rfail = @ + 1])
    /\ UNCHANGED <<mode, files, cur, flags, exit_code, roots>>
    /\ UNCHANGED <<cvars, nvars, qvars, pvars, ovars>>

\* if os.path.exists(dst_path_noprefix): os.remove(dst_path_noprefix)
RemoveDst ==
    /\ bpc = "move"
    /\ IF disk[cur].pdf = "none"
       THEN bpc' = "replace" /\ UNCHANGED <<disk, stats, attempt, outcome, errors>>
       ELSE \E removed \in BOOLEAN :
               IF removed
               THEN /\ disk' = [disk EXCEPT ![cur] = remove_dst(@)]
                    /\ bpc' = "replace"
                    /\ UNCHANGED <<stats, attempt, outcome, errors>>
               ELSE AttemptFailed(cleanup_temp(disk[cur], attempt),
                                  [stats[cur] EXCEPT !.mfail = @ + 1])
    /\ UNCHANGED <<mode, files, cur, flags, exit_code, roots>>
    /\ UNCHANGED <<cvars, nvars, qvars, pvars, ovars>>

\* os.replace(tmp_path_noprefix, dst_path_noprefix); on success html_to_pdf returns and
\* the retry loop breaks
Replace ==
    /\ bpc = "replace"
    /\ \E replaced \in BOOLEAN :
          IF replaced
          THEN /\ disk' = [disk EXCEPT ![cur] = os_replace(@, attempt)]
               /\ stats' = [stats EXCEPT ![cur].placed = @ + 1]
               /\ Finish("ok")
               /\ UNCHANGED <<attempt, errors>>
          ELSE AttemptFailed(cleanup_temp(disk[cur], attempt),
                             [stats[cur] EXCEPT !.mfail = @ + 1])
    /\ UNCHANGED <<mode, files, cur, flags, exit_code, roots>>
    /\ UNCHANGED <<cvars, nvars, qvars, pvars, ovars>>

\* the outer "except Exception as e" of both drivers
Handler ==
    /\ bpc = "handler"
    /\ Report("conversion error")
    /\ Quarantine("convert_error", stats[cur])
    /\ UNCHANGED <<mode, files, cur, flags, attempt, exit_code>>
    /\ UNCHANGED <<cvars, nvars, qvars, pvars, ovars>>

\* the roots that exist when the three mkdir calls of walk_and_process end: all of them,
\* or those created before the call that raises
roots_made(result) ==
    IF result = "ok" THEN {OutputRoots}
    ELSE IF result = "mkdir_fails" THEN { {}, {"html"}, {"html", "pdf"} }
    ELSE { {} }

\* the start of walk_and_process: a missing source root is printed and the function
\* returns; the output roots are created, with dry_run or without, and a mkdir that
\* raises leaves the function; with no file gathered it returns too
Setup ==
    /\ bpc = "setup"
    /\ bpc' = IF flags.setup = "ok" /\ files # <<>> THEN "file" ELSE "done"
    /\ \E made \in roots_made(flags.setup) : roots' = roots \cup made
    /\ UNCHANGED <<mode, files, cur, flags, disk, attempt, stats, outcome, errors, exit_code>>
    /\ UNCHANGED <<cvars, nvars, qvars, pvars, ovars>>

\* main returns: 0 or 2 after process_single_file, 0 when walk_and_process returned,
\* 1 when an exception left it
MainReturn ==
    /\ bpc = "done"
    /\ exit_code = -1
    /\ exit_code' = IF mode = "single" THEN (IF outcome[1] = "ok" THEN 0 ELSE 2)
                    ELSE IF flags.setup = "mkdir_fails" THEN 1
                    ELSE 0
    /\ UNCHANGED <<mode, files, cur, bpc, flags, disk, attempt, stats, outcome, errors, roots>>
    /\ UNCHANGED <<cvars, nvars, qvars, pvars, ovars>>

NextBatch ==
    \/ Setup \/ NextFile \/ CheckHeuristic \/ Validate \/ Convert
    \/ StartPdf \/ RunRenderer \/ RemoveDst \/ Replace \/ Handler \/ MainReturn

SpecBatch == InitBatch /\ [][NextBatch]_vars

InitDry == InitDrivers(TRUE)

\* with dry_run html_to_pdf returns before it creates a file and nothing raises inside
\* the drivers: the later steps of the PDF stage and the outer handler are not reached
NextDry ==
    Setup \/ NextFile \/ CheckHeuristic \/ Validate \/ Convert \/ StartPdf \/ MainReturn

SpecDry == InitDry /\ [][NextDry]_vars

----------------------------------------------------------------------------
(* The name sanitizer on its own: safe_component applied to a name, and     *)
(* applied again to its own output.  Names are short texts over characters  *)
(* of every class the function tells apart (letters of a reserved name in   *)
(* both cases, the two stripped characters, a disallowed one), alone with a *)
(* small max_len or behind a run of letters that brings them to the cut of  *)
(* MAX_COMPONENT_LEN.                                                       *)

MaxNameLen == 4
MaxLenArg == 5

NameChars == {"C", "o", "N", " ", ".", "/"}
ShortNames == UNION {[1..k -> NameChars] : k \in 0..MaxNameLen}
\* letters up to two characters before the cut of MAX_COMPONENT_LEN
Pad == [k \in 1..(MAX_COMPONENT_LEN - 2) |-> "a"]

SanitizerCalls ==
    {[name |-> t, max_len |-> m] : t \in ShortNames, m \in 1..MaxLenArg}
        \cup {[name |-> Pad \o t, max_len |-> MAX_COMPONENT_LEN] : t \in ShortNames}

InitSanitize ==
    /\ \E c \in SanitizerCalls : arg_name = c.name /\ arg_max_len = c.max_len
    /\ once = <<>>
    /\ twice = <<>>
    /\ npc = "start"
    /\ ConvertIdle /\ BatchIdle /\ QuarantineIdle /\ ParIdle /\ OutIdle

\* safe_component(name, max_len)
Sanitize ==
    /\ npc = "start"
    /\ once' = safe_component(arg_name, arg_max_len)
    /\ npc' = "once"
    /\ UNCHANGED <<arg_name, arg_max_len, twice>>
    /\ UNCHANGED <<cvars, bvars, qvars, pvars, ovars>>

\* safe_component(safe_component(name, max_len), max_len)
SanitizeAgain ==
    /\ npc = "once"
    /\ twice' = safe_component(once, arg_max_len)
    /\ npc' = "twice"
    /\ UNCHANGED <<arg_name, arg_max_len, once>>
    /\ UNCHANGED <<cvars, bvars, qvars, pvars, ovars>>

NextSanitize == Sanitize \/ SanitizeAgain

SpecSanitize == InitSanitize /\ [][NextSanitize]_vars

----------------------------------------------------------------------------
(* The quarantine destination of one file.  A path is the sequence of its   *)
(* parts (pathlib's Path.parts); the file lies in the directory rel below   *)
(* the source root and dest is what move_failed builds below failed_root.   *)

MaxDepth == 2

\* a directory name of 101 characters
LongDir == Pad \o <<"b","c","d">>
\* a directory name whose 100th character is a dot
DotDir == Pad \o <<"b",".","c","d">>
DirNames == {<<"d">>, <<"C","O","N">>, LongDir, DotDir}
RelDirs == UNION {[1..k -> DirNames] : k \in 0..MaxDepth}

\* the file names gather_webarchive_files and clean_sidecars_to_failed select: a short
\* one and one of 112 characters
FileNames(who) ==
    {(IF who = "sidecar" THEN <<".","_">> ELSE <<>>) \o stem \o <<".","w","e","b","a","r","c","h","i","v","e">> : stem \in {<<"f">>, LongDir}}

\* who calls move_failed: the loop of walk_and_process, clean_sidecars_to_failed or
\* process_single_file
Callers == {"loop", "sidecar", "single"}

InitQuarantine ==
    /\ caller \in Callers
    /\ rel \in RelDirs
    /\ fname \in FileNames(caller)
    /\ rel_root = <<>>
    /\ dest = <<>>
    /\ qresult = ""
    /\ qpc = "start"
    /\ ConvertIdle /\ BatchIdle /\ NamesIdle /\ ParIdle /\ OutIdle

\* the directory a file is quarantined under when the truncation is left out
keep_rel_parts(r) == r

\* truncate_rel_parts(rel): Path(*parts) of the sanitized parts
truncate_rel_parts(r) == [k \in 1..Len(r) |-> safe_component(r[k], MAX_COMPONENT_LEN)]

\* dest = failed_root / rel_root / src_file.name, as its parts below failed_root
move_failed_dest(root, file_name) == Append(root, file_name)

\* rel_root_trunc = truncate_rel_parts(rel_root) in the loop of walk_and_process
LoopRelRoot ==
    /\ qpc = "start"
    /\ caller = "loop"
    /\ rel_root' = truncate_rel_parts(rel)
    /\ qpc' = "call"
    /\ UNCHANGED <<caller, rel, fname, dest, qresult>>
    /\ UNCHANGED <<cvars, bvars, nvars, pvars, ovars>>

\* rel = Path(root).relative_to(src_root) in clean_sidecars_to_failed
SidecarRelRoot ==
    /\ qpc = "start"
    /\ caller = "sidecar"
    /\ rel_root' = rel
    /\ qpc' = "call"
    /\ UNCHANGED <<caller, rel, fname, dest, qresult>>
    /\ UNCHANGED <<cvars, bvars, nvars, pvars, ovars>>

\* Path(".") in process_single_file
SingleRelRoot ==
    /\ qpc = "start"
    /\ caller = "single"
    /\ rel_root' = <<>>
    /\ qpc' = "call"
    /\ UNCHANGED <<caller, rel, fname, dest, qresult>>
    /\ UNCHANGED <<cvars, bvars, nvars, pvars, ovars>>

\* move_failed(src_file, failed_root, rel_root): the move ends as the filesystem
\* decides
MoveFailed ==
    /\ qpc = "call"
    /\ dest' = move_failed_dest(rel_root, fname)
    /\ qresult' \in MoveResults
    /\ qpc' = "moved"
    /\ UNCHANGED <<caller, rel, fname, rel_root>>
    /\ UNCHANGED <<cvars, bvars, nvars, pvars, ovars>>

NextQuarantine == LoopRelRoot \/ SidecarRelRoot \/ SingleRelRoot \/ MoveFailed

SpecQuarantine == InitQuarantine /\ [][NextQuarantine]_vars

----------------------------------------------------------------------------
(* Two conversions side by side: the loop over the resources of              *)
(* _extract_subresources_and_rewrite run for two input files at once, each   *)
(* call of the filesystem (the exists() tests of one resource, the write of  *)
(* its file) being one step.  The resources directory of a conversion is     *)
(* out_html_path.parent / "resources": two files whose HTML goes to the same *)
(* output directory, as two archives of one source directory do, have the    *)
(* same one.                                                                 *)

Conversions == {1, 2}
OutDirs == {"out/d1", "out/d2"}
ParSubLists == {<<ResA>>, <<ResC>>, <<ResA, ResB>>, <<ResN, ResA>>}

InitPar ==
    /\ jobs \in [Conversions -> [outdir : OutDirs, resources : ParSubLists]]
    /\ jobs[1].outdir = "out/d1"
    /\ shared = [d \in OutDirs |-> <<>>]
    /\ procs = [c \in Conversions |->
                    [pc |-> "name", idx |-> 1, local |-> <<>>, wrote |-> {},
                     redirected |-> FALSE]]
    /\ ConvertIdle /\ BatchIdle /\ NamesIdle /\ QuarantineIdle /\ OutIdle

\* the other conversion
Other(c) == CHOOSE o \in Conversions : o # c

\* the files of dir that conversion c did not write
Without(dir, d, c) == SelectSeq(dir, LAMBDA f : <<d, f.name>> \notin procs[c].wrote)

\* "pick filename", "determine extension if missing" and "avoid collisions" for the
\* resource at idx: the name is chosen against the directory as it is now
NameResource(c) ==
    /\ procs[c].pc = "name"
    /\ \E pb \in {probe(jobs[c].resources[procs[c].idx])} :
       \E filename \in {pick_filename(pb.orig, pb.mime, procs[c].idx)} :
       \E local \in {avoid_collisions(shared[jobs[c].outdir], filename, 0)} :
          procs' = [procs EXCEPT
                       ![c].pc = "write",
                       ![c].local = local,
                       ![c].redirected =
                           @ \/ local # avoid_collisions(
                                            Without(shared[jobs[c].outdir], jobs[c].outdir,
                                                    Other(c)),
                                            filename, 0)]
    /\ UNCHANGED <<jobs, shared>>
    /\ UNCHANGED <<cvars, bvars, nvars, qvars, ovars>>

\* "if data_bytes: _write_bytes_file(local_path, data_bytes)", then the next resource
WriteResource(c) ==
    /\ procs[c].pc = "write"
    /\ \E pb \in {probe(jobs[c].resources[procs[c].idx])} :
          /\ shared' = IF pb.bytes_data # <<>>
                       THEN [shared EXCEPT ![jobs[c].outdir] =
                                _write_bytes_file(@, procs[c].local, pb.bytes_data)]
                       ELSE shared
          /\ procs' = [procs EXCEPT
                          ![c].pc = IF procs[c].idx < Len(jobs[c].resources)
                                    THEN "name" ELSE "done",
                          ![c].idx = @ + 1,
                          ![c].wrote = IF pb.bytes_data # <<>>
                                       THEN @ \cup {<<jobs[c].outdir, procs[c].local>>}
                                       ELSE @]
    /\ UNCHANGED jobs
    /\ UNCHANGED <<cvars, bvars, nvars, qvars, ovars>>

NextPar == \E c \in Conversions : NameResource(c) \/ WriteResource(c)

SpecPar == InitPar /\ [][NextPar]_vars

----------------------------------------------------------------------------
(* The output paths of a batch: walk_and_process derives out_html and        *)
(* out_pdf of every gathered file from the file's directory below the        *)
(* source root and from its name.  A path is the sequence of its parts below *)
(* the output root.                                                          *)

MAX_STEM_LEN == 200

\* os.path.splitext(p) of a name without separators: the extension starts at the last
\* dot, unless only dots precede it
splitext(p) ==
    LET dot == Last({k \in 1..Len(p) : p[k] = "."})
    IN  IF dot # 0 /\ \E k \in 1..(dot - 1) : p[k] # "."
        THEN [stem |-> SubSeq(p, 1, dot - 1), ext |-> SubSeq(p, dot, Len(p))]
        ELSE [stem |-> p, ext |-> <<>>]

\* safe_stem_with_ext(orig_name, stem_max): the stem goes through the steps of
\* safe_component, the extension is returned as it is
safe_stem_with_ext(orig_name, stem_max) ==
    [stem |-> safe_component(splitext(orig_name).stem, stem_max),
     ext |-> splitext(orig_name).ext]

\* out_html = out_html_root / rel_root_trunc / (safe_stem + ".html"), likewise out_pdf
out_paths(src) ==
    LET under(dir, stem) == [html |-> Append(dir, stem \o <<".","h","t","m","l">>),
                             pdf |-> Append(dir, stem \o <<".","p","d","f">>)]
    IN  under(truncate_rel_parts(src.rel_root),
              safe_stem_with_ext(src.name, MAX_STEM_LEN).stem)

\* a stem of MAX_STEM_LEN characters, to be continued
StemPad == [k \in 1..MAX_STEM_LEN |-> "s"]

\* names gather_webarchive_files selects
SourceNames ==
    { stem \o <<".","w","e","b","a","r","c","h","i","v","e">> : stem \in {<<"a">>, <<"a"," ">>, <<"a",".">>, <<"b">>, StemPad \o <<"1">>, StemPad \o <<"2">>} }

\* directories below the source root; the last two names differ in their 101st character
SourceDirs == { <<>>, << <<"d">> >>, << <<"d">>, <<"d">> >>, << LongDir >>, << Pad \o <<"b","c","e">> >> }

Sources == [rel_root : SourceDirs, name : SourceNames]

\* os.walk yields every file once: the gathered files are distinct paths
InitOut ==
    /\ srcs \in {l \in UNION {[1..n -> Sources] : n \in 1..MaxFiles} :
                    \A i, j \in 1..Len(l) : i # j => l[i] # l[j]}
    /\ outs = <<>>
    /\ ConvertIdle /\ BatchIdle /\ NamesIdle /\ QuarantineIdle /\ ParIdle

\* one round of the loop of walk_and_process, up to the derivation of the paths
OutPaths ==
    /\ Len(outs) < Len(srcs)
    /\ outs' = Append(outs, out_paths(srcs[Len(outs) + 1]))
    /\ UNCHANGED srcs
    /\ UNCHANGED <<cvars, bvars, nvars, qvars, pvars>>

NextOut == OutPaths

SpecOut == InitOut /\ [][NextOut]_vars

----------------------------------------------------------------------------
(* Properties of the conversion.                                            *)

RECURSIVE src_values(_, _)
\* the values of the src attributes of t at or after i, in document order
src_values(t, i) ==
    LET matched(m) == <<Slice(t, m.vs, m.ve)>> \o src_values(t, m.end + 1)
        leftmost(k) == IF k = 0 THEN <<>> ELSE matched(AttrMatchAt(t, k, <<"s","r","c">>))
    IN  leftmost(First({j \in i..Len(t) : AttrMatchAt(t, j, <<"s","r","c">>).ok}))

\* the archive with one image whose document refers to it by its full URL
ImgArchive == Archive(Text(ImgDoc), NoMain, <<ResA>>)

\* C1: converting, with inlining and into an empty output directory, the archive whose
\* document is <html><head></head><body><img src="http://x/a.png"></body></html> and
\* whose only sub-resource is http://x/a.png (image/png, 10 bytes) writes a document
\* whose body is exactly <img src="resources/a.png"> and a file a.png in the resources
\* directory holding those 10 bytes.
C1_EndToEnd ==
    (cpc = "done" /\ wa = ImgArchive /\ inline /\ lastrun.ran /\ lastrun.dir0 = <<>>)
        => /\ html.exists
           /\ Contains(html.text, <<"<","b","o","d","y",">","<","i","m","g"," ","s","r","c","=","\"","r","e","s","o","u","r","c","e","s","/","a",".","p","n","g","\"",">","<","/","b","o","d","y",">">>)
           /\ exists(resdir, <<"a",".","p","n","g">>)
           /\ read_file(resdir, <<"a",".","p","n","g">>) = TenBytes

\* the archive exposes a document: a non-empty direct rendering, an HTML resource with
\* text, or a main resource with a payload
ExposesDocument(w) ==
    \/ w.to_html.kind = "text" /\ w.to_html.text # <<>>
    \/ _guess_html_resource_from_wa(w).text # <<>>
    \/ w.main_resource.present /\ w.main_resource.r.data.kind \in {"bytes", "str"}

\* C2: the conversion of an archive that parses never raises and always writes a
\* non-empty document, which is the synthesized index when the archive exposes no direct
\* rendering, no HTML resource and no main-resource payload.
C2_ResolutionTotal ==
    /\ wa.parse_ok => cpc # "raised"
    /\ cpc = "done" =>
          /\ html.exists
          /\ html.text # <<>>
          /\ ~ExposesDocument(wa) => html.text = _build_index_from_wa(wa, SrcName)

CascadeOrder == <<"direct", "guess", "main", "index">>

\* C3: the strategies are tried in the order direct rendering, HTML resource, main
\* payload, index; a strategy is tried only if no earlier one yielded usable text; when
\* the direct rendering is non-empty the document derives from it alone.
C3_CascadeOrder ==
    /\ tried = SubSeq(CascadeOrder, 1, Len(tried))
    /\ \A n \in 1..Len(tried) : \A k \in 1..(n - 1) : tried[k] \notin Range(yielded)
    /\ (cpc = "done" /\ wa.to_html.kind = "text" /\ wa.to_html.text # <<>>) =>
          /\ produced = "direct"
          /\ tried = <<"direct">>
          /\ IF inline THEN lastrun.input = wa.to_html.text /\ html.text = lastrun.text
             ELSE html.text = wa.to_html.text

\* a reference mapped to another local path is a substring of key
HasMappedSubstring(url_to_local, key) ==
    \E n \in 1..Len(url_to_local) :
        /\ url_to_local[n].k # <<>>
        /\ url_to_local[n].v # dict_get(url_to_local, key)
        /\ Contains(key, url_to_local[n].k)

\* C4: when a mapped reference A is a substring of a mapped reference B, a src attribute
\* whose value is B comes out of the rewriting as B's local path, whole, and not as A's
\* local path joined to the rest of B.
C4_LongestKeyFirst ==
    (lastrun.ran /\ ~lastrun.raised) =>
        LET before == src_values(lastrun.input, 1)
            after == src_values(lastrun.text, 1)
        IN  \A n \in 1..Len(before) :
                (/\ dict_has(lastrun.url_to_local, before[n])
                 /\ HasMappedSubstring(lastrun.url_to_local, before[n]))
                    => /\ Len(after) = Len(before)
                       /\ after[n] = dict_get(lastrun.url_to_local, before[n])

\* the name for filename with the counter n: "stem_n.suffix", filename itself for n = 0
NumberedName(filename, n) ==
    IF n = 0 THEN filename
    ELSE path_stem(filename) \o <<"_">> \o NatToText(n) \o path_suffix(filename)

\* the names present in the resources directory when the resource at position j of the
\* run is about to be written
NamesBefore(run, j) ==
    {run.dir0[n].name : n \in 1..Len(run.dir0)}
        \cup {run.assigned[k].local : k \in {m \in 1..(j - 1) : run.assigned[m].data # <<>>}}

\* the pairs of resources of a run that carry bytes and reduce to the same file name
SameNamePairs(run) ==
    {p \in (1..Len(run.assigned)) \X (1..Len(run.assigned)) :
        /\ p[1] < p[2]
        /\ run.assigned[p[1]].filename = run.assigned[p[2]].filename
        /\ run.assigned[p[1]].data # <<>>
        /\ run.assigned[p[2]].data # <<>>}

\* both resources of the pair are on disk under distinct names, each with its own bytes
TwoDistinctFiles(run, p) ==
    LET a == run.assigned[p[1]]
        b == run.assigned[p[2]]
    IN  /\ a.local # b.local
        /\ exists(run.dir, a.local) /\ read_file(run.dir, a.local) = a.data
        /\ exists(run.dir, b.local) /\ read_file(run.dir, b.local) = b.data

\* C5 (as stated): two resources that reduce to the same file name end up as two
\* distinct files, each with its own bytes, the second named with _1 on the stem.
C5_SecondGetsOne ==
    lastrun.ran =>
        \A p \in SameNamePairs(lastrun) :
            /\ TwoDistinctFiles(lastrun, p)
            /\ lastrun.assigned[p[2]].local
                  = NumberedName(lastrun.assigned[p[2]].filename, 1)

\* C5 (amended): two resources that reduce to the same file name end up as two distinct
\* files, each with its own bytes and the first never overwritten; the second is named
\* stem_n for the least n >= 1 whose name is not yet in the resources directory, which
\* is _1 when the directory held neither the name nor its _1 form before.
C5_CollisionFree ==
    lastrun.ran =>
        \A p \in SameNamePairs(lastrun) :
            /\ TwoDistinctFiles(lastrun, p)
            /\ \E n \in 1..Len(lastrun.dir) :
                  /\ lastrun.assigned[p[2]].local
                        = NumberedName(lastrun.assigned[p[2]].filename, n)
                  /\ \A k \in 0..(n - 1) :
                        NumberedName(lastrun.assigned[p[2]].filename, k)
                            \in NamesBefore(lastrun, p[2])

\* two same-named resources with bytes have been materialized into a directory that
\* already held a file of that name
C5_Witness ==
    /\ lastrun.ran
    /\ lastrun.dir0 # <<>>
    /\ \E p \in SameNamePairs(lastrun) :
          lastrun.assigned[p[2]].local # NumberedName(lastrun.assigned[p[2]].filename, 1)

\* C6: a src reference that is not a registered variant of any archived resource comes
\* out of the rewriting unchanged.
C6_UnmappedUntouched ==
    (lastrun.ran /\ ~lastrun.raised) =>
        LET before == src_values(lastrun.input, 1)
            after == src_values(lastrun.text, 1)
        IN  \A n \in 1..Len(before) :
                (/\ ~dict_has(lastrun.url_to_local, before[n])
                 /\ ~dict_has(lastrun.url_to_local, unquote(before[n])))
                    => /\ Len(after) = Len(before)
                       /\ after[n] = before[n]

\* C18: no failure on a single resource, while it is probed, named or written, ends
\* the loop over the resources: every run of _extract_subresources_and_rewrite gets
\* through the loop, so that the document is written with the other resources
\* materialized and their references rewritten.
C18_ResourceFailuresAbsorbed == lastrun.ran => ~lastrun.loop_raised

\* C21: no two resources of one run of _extract_subresources_and_rewrite, with or
\* without a payload, are assigned the same local path.
C21_UniqueLocalPaths ==
    lastrun.ran
        => \A i, j \in 1..Len(lastrun.assigned) :
               i # j => lastrun.assigned[i].rel # lastrun.assigned[j].rel

\* the number of places of t where pat starts, letter case aside
Occurrences(t, pat) == Cardinality({k \in 1..Len(t) : StartsWithAtCI(t, k, pat)})

\* the opening <head...> tag of t, empty when t has none
HeadTag(t) ==
    LET opened(k) == IF k = 0 THEN <<>> ELSE Slice(t, k, head_match(t, 1))
    IN  opened(First({k \in 1..Len(t) : StartsWithAtCI(t, k, <<"<","h","e","a","d">>)}))

\* C22: a document without a <base> tag comes out of the rewriting with the tag
\* <base href="./"> right after its opening <head...> tag, or, when it has no <head>,
\* inside a <head> put before it; a document with a <base href=...> tag gets none.
C22_BaseInjected ==
    (lastrun.ran /\ ~lastrun.raised)
        => IF base_match(lastrun.input)
           THEN Occurrences(lastrun.text, <<"<","b","a","s","e">>) = Occurrences(lastrun.input, <<"<","b","a","s","e">>)
           ELSE IF HeadTag(lastrun.input) # <<>>
           THEN Contains(lastrun.text, HeadTag(lastrun.input) \o <<"<","b","a","s","e"," ","h","r","e","f","=","\"",".","/","\"",">">>)
           ELSE StartsWithAt(lastrun.text, 1, <<"<","h","e","a","d",">","<","b","a","s","e"," ","h","r","e","f","=","\"",".","/","\"",">","<","/","h","e","a","d",">">>)

\* C23: the srcset pass gets through every srcset attribute, one with an empty entry
\* after a trailing comma included, and leaves as many srcset attributes as it found,
\* each entry with its URL mapped or unchanged and its descriptor kept.
C23_SrcsetRewritten ==
    (lastrun.ran /\ ~lastrun.loop_raised /\ Contains(lower(lastrun.input), <<"s","r","c","s","e","t","=">>))
        => /\ ~lastrun.raised
           /\ Occurrences(lastrun.text, <<"s","r","c","s","e","t","=">>) = Occurrences(lastrun.input, <<"s","r","c","s","e","t","=">>)
           /\ lastrun.input = SrcsetDoc => Contains(lastrun.text, <<"a",".","p","n","g"," ","1","x">>)

\* the entry of the synthesized index for the sub-resource r
IndexEntry(r) == <<"<","l","i",">","R","e","s","o","u","r","c","e",":"," ">> \o r.url \o <<" ","(","m","i","m","e","=">>

\* C24: when the conversion ends with the synthesized index, the index lists the main
\* resource and every sub-resource that the HTML-guessing step and the materializer
\* find in the collections they probe.
C24_IndexComplete ==
    produced = "index"
        => /\ wa.main_resource.present
                  => Contains(html.text, <<"<","l","i",">","M","a","i","n"," ","r","e","s","o","u","r","c","e",":"," ">> \o wa.main_resource.r.url)
           /\ \A r \in Range(candidates(wa)) \cup Range(collect_resources(wa)) :
                  r # wa.main_resource.r => Contains(html.text, IndexEntry(r))

\* C25: within one batch two distinct source files never get the same HTML output path
\* nor the same PDF output path.
C25_NoOutputOverwrite ==
    \A i, j \in 1..Len(outs) :
        srcs[i] # srcs[j] => outs[i].html # outs[j].html /\ outs[i].pdf # outs[j].pdf

\* C26: a batch run with dry_run leaves the filesystem as it was: every file keeps its
\* source, nothing is quarantined, no HTML, resource, PDF or temporary file is written,
\* no output root is created, and the renderer is never run.
C26_DryRunFrame ==
    (flags.dry_run /\ mode = "batch")
        => /\ \A f \in 1..Len(files) :
                  /\ disk[f] = FreshDisk(stats[f].pdf0)
                  /\ stats[f].runs = 0 /\ stats[f].created = 0 /\ stats[f].parses = 0
           /\ roots = roots_before([f \in 1..Len(files) |-> stats[f].pdf0])

----------------------------------------------------------------------------
(* Properties of the PDF stage and of the drivers.                          *)

Processed(f) == outcome[f] # "pending"

C8_AtomicPlacement ==
    \A f \in 1..Len(files) :
        /\ disk[f].pdf # stats[f].pdf0 => stats[f].runs > stats[f].rfail
        /\ stats[f].pdf0 = "old" => disk[f].pdf \in {"old", "new"}

\* C9 (as stated): after any failure of the conversion or of the PDF stage the source
\* file is gone from its path and is under the quarantine root, in both drivers.
C9_AnyFailureQuarantines ==
    \A f \in 1..Len(files) :
        outcome[f] \in {"convert_error", "pdf_failed"}
            => ~disk[f].src /\ disk[f].quarantined

\* C9 (amended): an exception that leaves convert_to_html makes either driver call
\* move_failed; when the move or the copy-then-delete succeeds the source file is gone
\* from its path and is under the quarantine root, and when both fail it stays where it
\* was.  A renderer that fails on every attempt does not send the file to quarantine.
C9_EscapedFailureQuarantines ==
    \A f \in 1..Len(files) :
        /\ (outcome[f] = "convert_error" /\ stats[f].move \in {"moved", "copied"})
              => ~disk[f].src /\ disk[f].quarantined
        /\ (outcome[f] = "convert_error" /\ stats[f].move \in {"copy_kept", "failed"})
              => disk[f].src
        /\ outcome[f] = "pdf_failed" => disk[f].src /\ ~disk[f].quarantined

\* in the single-file mode an archive that does not parse has been moved to quarantine
C9_Witness ==
    /\ mode = "single"
    /\ outcome[1] = "convert_error"
    /\ stats[1].move = "moved"
    /\ ~disk[1].src
    /\ disk[1].quarantined

\* C10: when the PDF stage of a file fails on its last attempt, the HTML document and
\* the resources written for the file are on disk as convert_to_html left them, and
\* walk_and_process goes on to the next file.
C10_FailureConfined ==
    \A f \in 1..Len(files) :
        outcome[f] = "pdf_failed"
            => /\ disk[f].html.exists
               /\ disk[f].html = stats[f].html
               /\ disk[f].resources = stats[f].resources
               /\ (mode = "batch" /\ cur = f) => bpc \in {"file", "done"}
               /\ (mode = "batch" /\ bpc = "done") => \A g \in 1..Len(files) : Processed(g)

\* the renderer failed three times on a file of the batch and the next file has been
\* processed
C10_Witness ==
    \E f \in 1..Len(files) :
        /\ mode = "batch"
        /\ outcome[f] = "pdf_failed"
        /\ stats[f].rfail = 3
        /\ f < Len(files)
        /\ Processed(f + 1)

\* C11 (as stated): a file that fails the heuristic is quarantined, in both drivers,
\* and no parser, conversion or renderer ran for it.
C11_RejectedIsQuarantined ==
    \A f \in 1..Len(files) :
        outcome[f] = "heuristic_failed"
            => /\ disk[f].quarantined /\ ~disk[f].src
               /\ stats[f].parses = 0 /\ stats[f].converts = 0 /\ stats[f].runs = 0

\* C11 (amended): for a file that fails is_likely_webarchive_file neither the parser
\* nor convert_to_html nor the renderer is ever called and the file ends as rejected
\* by the heuristic; walk_and_process calls move_failed for it, after which the file is
\* under the quarantine root and gone from its path when the move or the
\* copy-then-delete succeeded and still at its path when both failed, while
\* process_single_file returns False and leaves the file where it is.
C11_CheapRejection ==
    \A f \in 1..Len(files) :
        ~files[f].likely
            => /\ stats[f].parses = 0 /\ stats[f].converts = 0 /\ stats[f].runs = 0
               /\ stats[f].stages \in {<<>>, <<"validating">>}
               /\ ~disk[f].html.exists
               /\ Processed(f) => outcome[f] = "heuristic_failed"
               /\ (Processed(f) /\ mode = "batch" /\ stats[f].move \in {"moved", "copied"})
                     => disk[f].quarantined /\ ~disk[f].src
               /\ (Processed(f) /\ mode = "batch" /\ stats[f].move \in {"copy_kept", "failed"})
                     => disk[f].src
               /\ (Processed(f) /\ mode = "single")
                     => disk[f].src /\ ~disk[f].quarantined /\ stats[f].move = ""

\* the batch loop has rejected a file by the heuristic and moved it to quarantine
C11_Witness ==
    \E f \in 1..Len(files) :
        /\ mode = "batch"
        /\ ~files[f].likely
        /\ outcome[f] = "heuristic_failed"
        /\ stats[f].move = "moved"
        /\ disk[f].quarantined
        /\ ~disk[f].src
        /\ stats[f].parses = 0

\* the error list has an entry for file f
Recorded(f) == \E i \in 1..Len(errors) : errors[i][1] = f

\* C12: walk_and_process visits no file twice and, when it is through, has visited
\* and processed every gathered file, whatever the outcome of the files before it and
\* of their moves to quarantine, and the error list it prints has an entry for every
\* file that failed the heuristic, the validation, the conversion or the PDF stage.
C12_LoopNeverAborts ==
    /\ \A f \in 1..Len(files) : stats[f].visits <= 1
    /\ \A i \in 1..Len(errors) : errors[i][1] \in 1..cur /\ outcome[errors[i][1]] # "ok"
    /\ (mode = "batch" /\ bpc = "done")
          => \A f \in 1..Len(files) :
                 /\ stats[f].visits = 1
                 /\ Processed(f)
                 /\ outcome[f] # "ok" => Recorded(f)

\* the batch is through: its first file failed and could not be moved to quarantine,
\* its second file was processed after it, and the first file is in the error list
C12_Witness ==
    /\ mode = "batch"
    /\ bpc = "done"
    /\ Len(files) = 2
    /\ outcome[1] # "ok"
    /\ stats[1].move = "failed"
    /\ stats[2].visits = 1
    /\ Processed(2)
    /\ Recorded(1)

\* C13: main returns 0 after a batch run that went through its files, with or without
\* recorded errors, and a non-zero code when the setup failed, as with a source root
\* that does not exist.
C13_ExitCode ==
    (mode = "batch" /\ exit_code # -1)
        => /\ flags.setup = "ok" => exit_code = 0
           /\ flags.setup # "ok" => exit_code # 0

\* the place of a stage in Validating, Resolving, Materializing, Rendering
StageRank(stage) ==
    CASE stage = "validating" -> 1
      [] stage = "resolving" -> 2
      [] stage = "materializing" -> 3
      [] stage = "rendering" -> 4

\* C20: a file goes through the stages in the order Validating, Resolving,
\* Materializing, Rendering, never back to an earlier one; the renderer runs only for
\* a file whose HTML document is written; and a processed file is done, with its source
\* in place and its document written, or failed, or in quarantine, never two of them.
C20_StateMachine ==
    \A f \in 1..Len(files) :
        /\ \A i \in 1..(Len(stats[f].stages) - 1) :
               StageRank(stats[f].stages[i]) < StageRank(stats[f].stages[i + 1])
        /\ stats[f].runs > 0 => disk[f].html.exists
        /\ "rendering" \in Range(stats[f].stages) => disk[f].html.exists
        /\ outcome[f] = "ok"
              => disk[f].src /\ ~disk[f].quarantined /\ disk[f].html.exists /\ ~Recorded(f)
        /\ disk[f].quarantined => Processed(f) /\ outcome[f] # "ok"

----------------------------------------------------------------------------
(* Properties of the name sanitizer.                                        *)

\* C14 (as stated): sanitizing a sanitized name changes nothing.
C14_Idempotent == npc = "twice" => twice = once

\* a name the sanitizer leaves as it is: no trailing space or dot, not reserved
Settled(y) ==
    /\ y # <<>>
    /\ y[Len(y)] \notin {" ", "."}
    /\ upper(y) \notin RESERVED_NAMES

\* the name before the cut: safe_component with a max_len no name reaches
Uncut == safe_component(arg_name, Len(arg_name) + 1)

\* C14 (amended): safe_component(safe_component(x, max_len), max_len) equals
\* safe_component(x, max_len) exactly when the first output does not end in a space or
\* a dot and is no reserved name, which is so whenever the first application did not
\* cut the name; a cut that leaves a trailing space or dot, or a reserved name, is
\* repaired only by the second application.
C14_IdempotentUnlessCut ==
    npc = "twice"
        => /\ twice = once <=> Settled(once)
           /\ Len(Uncut) <= arg_max_len => twice = once
           /\ Settled(twice) \/ Len(twice) = arg_max_len

\* a name of 101 characters is cut at MAX_COMPONENT_LEN behind a space, which the second
\* application strips
C14_Witness ==
    /\ npc = "twice"
    /\ arg_max_len = MAX_COMPONENT_LEN
    /\ Len(arg_name) > MAX_COMPONENT_LEN
    /\ Len(once) = MAX_COMPONENT_LEN
    /\ once[MAX_COMPONENT_LEN] = " "
    /\ Len(twice) = MAX_COMPONENT_LEN - 1

\* C15: the output of safe_component is never a reserved device name, whatever
\* max_len >= 1 and also when the name was cut, and a reserved input comes out with a
\* leading underscore.
C15_NeverReserved ==
    npc # "start"
        => /\ upper(once) \notin RESERVED_NAMES
           /\ upper(arg_name) \in RESERVED_NAMES => once[1] = "_"

\* C16: the output of safe_component is never longer than max_len, also when an
\* underscore was substituted for an empty name or put before a reserved one.
C16_LengthBound ==
    /\ npc # "start" => Len(once) <= arg_max_len /\ Len(once) >= 1
    /\ npc = "twice" => Len(twice) <= arg_max_len

\* a reserved name as long as max_len got its underscore and was cut back to max_len
C16_Witness ==
    /\ npc = "once"
    /\ upper(arg_name) \in RESERVED_NAMES
    /\ Len(arg_name) = arg_max_len
    /\ once[1] = "_"
    /\ Len(once) = arg_max_len

----------------------------------------------------------------------------
(* Properties of the quarantine destination.                                *)

\* the parts of the file's path below the source root
SourceParts == Append(rel, fname)

\* C17 (as stated): a file of the work list whose relative path has a part longer than
\* MAX_COMPONENT_LEN is quarantined at a path all of whose parts below the quarantine
\* root are within MAX_COMPONENT_LEN.
C17_EveryPartWithinMax ==
    (qpc = "moved" /\ caller = "loop"
       /\ \E k \in 1..Len(SourceParts) : Len(SourceParts[k]) > MAX_COMPONENT_LEN)
        => \A k \in 1..Len(dest) : Len(dest[k]) <= MAX_COMPONENT_LEN

\* C17 (amended): the loop of walk_and_process quarantines a file under its directory
\* path with every directory part put through safe_component, hence no longer than
\* MAX_COMPONENT_LEN, followed by the file's own name unchanged, whatever its length;
\* clean_sidecars_to_failed passes the directory parts as they are, and
\* process_single_file puts the file directly below the quarantine root.
C17_DirectoryPartsTruncated ==
    qpc = "moved"
        => /\ dest = Append(rel_root, fname)
           /\ caller = "loop"
                 => /\ Len(rel_root) = Len(rel)
                    /\ \A k \in 1..Len(rel) :
                           /\ Len(dest[k]) <= MAX_COMPONENT_LEN
                           /\ dest[k] = safe_component(rel[k], MAX_COMPONENT_LEN)
           /\ caller = "sidecar" => rel_root = rel
           /\ caller = "single" => dest = <<fname>>

\* a file of the loop below a directory of 101 characters has been moved under a
\* directory of 100 characters
C17_Witness ==
    /\ qpc = "moved"
    /\ caller = "loop"
    /\ qresult = "moved"
    /\ \E k \in 1..Len(rel) :
           /\ Len(rel[k]) > MAX_COMPONENT_LEN
           /\ Len(dest[k]) = MAX_COMPONENT_LEN
           /\ dest[k] = SubSeq(rel[k], 1, MAX_COMPONENT_LEN)

----------------------------------------------------------------------------
(* Properties of two conversions side by side.                              *)

\* C19: two conversions running at once write disjoint sets of resource files, and the
\* name one of them picks for a resource does not depend on a file the other wrote.
C19_FileIsolation ==
    /\ procs[1].wrote \cap procs[2].wrote = {}
    /\ \A c \in Conversions : ~procs[c].redirected

====
